---- MODULE Spec2Model ----
(***************************************************************************)
(* veiled: the exclusion reconciliation engine.                            *)
(*                                                                         *)
(* The model covers the registry store (registry.rs), the reconciliation   *)
(* run (commands/run.rs) and the exclusion-flag adapter (tmutil.rs) as     *)
(* seen by concurrently running `veiled run` processes.  The filesystem    *)
(* and the exclusion flags are the environment: directories appear and     *)
(* vanish and flags are cleared or set by other tools while runs are in    *)
(* progress.                                                               *)
(***************************************************************************)
EXTENDS Integers, Sequences, FiniteSets, TLC

\* ------------------------------------------------------------------------
\* Bounds of the model
\* ------------------------------------------------------------------------
NumPaths == 2

NumProcs == 2

MaxEnvSteps == 1

\* ------------------------------------------------------------------------
\* Program constants
\* ------------------------------------------------------------------------
UPDATE_COOLDOWN_SECS == 86400

Paths == 1 .. NumPaths

Procs == 1 .. NumProcs

NoProc == 0

\* the path argument of a command that takes none
NoPath == 0

\* The one path that lies outside every search root: the scanner reports it
\* only when the configuration lists it under extra_exclusions.
ManualPath == NumPaths

\* now_epoch: the readings of the system clock (seconds since the epoch) that
\* separate the cases of the update cooldown; the clock may be set back
\* between two readings.
now_epoch == {1, UPDATE_COOLDOWN_SECS, UPDATE_COOLDOWN_SECS + 1}

\* Option<T>: None is the empty sequence, Some(v) the one-element sequence.
None == << >>

Some(v) == << v >>

\* ------------------------------------------------------------------------
\* Sequence helpers
\* ------------------------------------------------------------------------
SeqToSet(s) == { s[i] : i \in 1 .. Len(s) }

NoDup(s) == \A i, j \in 1 .. Len(s) : i # j => s[i] # s[j]

IsPrefix(s, t) == Len(s) <= Len(t) /\ \A i \in 1 .. Len(s) : s[i] = t[i]

Min(S) == CHOOSE x \in S : \A y \in S : x <= y

RECURSIVE SortSet(_)
\* results.sort(): the elements of a set in increasing path order
SortSet(S) == IF S = {} THEN << >>
              ELSE << Min(S) >> \o SortSet(S \ {Min(S)})

\* ------------------------------------------------------------------------
\* registry.rs: Registry
\* ------------------------------------------------------------------------
DefaultRegistry == [paths |-> << >>, saved_bytes |-> None, last_update_check |-> None]

contains(paths, path) == \E i \in 1 .. Len(paths) : paths[i] = path

\* an add that does not look for the path first
add_always(paths, path) == Append(paths, path)

add(paths, path) == IF ~contains(paths, path) THEN Append(paths, path) ELSE paths

retain(paths, path) == SelectSeq(paths, LAMBDA q : q # path)

\* a remove that reports a removal whatever the list held
remove_always_true(paths, path) == [paths |-> retain(paths, path), removed |-> TRUE]

remove(paths, path) == [paths |-> retain(paths, path),
                        removed |-> Len(retain(paths, path)) < Len(paths)]

\* ------------------------------------------------------------------------
\* registry.rs: the backing file and LockedRegistry::load / save
\* ------------------------------------------------------------------------
\* serde_json::to_writer_pretty: a JSON object; the optional fields are
\* skipped when None.
Serialize(reg) ==
    [k \in {"paths"}
           \cup (IF reg.saved_bytes # None THEN {"saved_bytes"} ELSE {})
           \cup (IF reg.last_update_check # None THEN {"last_update_check"} ELSE {})
       |-> IF k = "paths" THEN reg.paths
           ELSE IF k = "saved_bytes" THEN reg.saved_bytes[1]
           ELSE reg.last_update_check[1]]

\* a reader that gives a missing optional field the value zero
Deserialize_zero_default(json) ==
    [paths |-> json["paths"],
     saved_bytes |-> IF "saved_bytes" \in DOMAIN json
                     THEN Some(json["saved_bytes"]) ELSE Some(0),
     last_update_check |-> IF "last_update_check" \in DOMAIN json
                           THEN Some(json["last_update_check"]) ELSE Some(0)]

\* serde_json::from_reader with #[serde(default)] on the optional fields
Deserialize(json) ==
    [paths |-> json["paths"],
     saved_bytes |-> IF "saved_bytes" \in DOMAIN json
                     THEN Some(json["saved_bytes"]) ELSE None,
     last_update_check |-> IF "last_update_check" \in DOMAIN json
                           THEN Some(json["last_update_check"]) ELSE None]

EmptyFile == [kind |-> "empty", json |-> << >>]

MalformedFile == [kind |-> "malformed", json |-> << >>]

JsonFile(reg) == [kind |-> "json", json |-> Serialize(reg)]

\* LockedRegistry::load, the Ok value: an empty file and unparsable contents
\* both give Registry::default()
load(f) == IF f.kind = "json" THEN Deserialize(f.json) ELSE DefaultRegistry

\* LockedRegistry::save: outcome "ok" rewrites the file; an I/O error leaves
\* the old contents (set_len failed) or the truncated file (write failed).
SaveOutcomes == {"ok", "err_before", "err_truncated"}

\* The length of the file, counted in entries of the text: an absent or
\* empty file has none, unparsable contents are shorter than any registry,
\* and a registry takes its braces, its fields and its paths, which are
\* taken to be equally long.
Size(f) ==
    CASE f.kind \in {"absent", "empty"} -> 0
      [] f.kind = "malformed" -> 1
      [] f.kind = "json" -> 2 + Cardinality(DOMAIN f.json) + Len(f.json["paths"])

\* self.file.set_len(0)
set_len(f) == EmptyFile

\* self.file.rewind() and serde_json::to_writer_pretty: the text is written
\* from the start of the file over what the file holds; what the file holds
\* beyond the end of the text stays and makes the contents unparsable
write(f, reg) == IF Size(f) > Size(JsonFile(reg)) THEN MalformedFile ELSE JsonFile(reg)

\* a save that does not cut the file before it writes
save_without_set_len(f, reg, outcome) ==
    CASE outcome = "ok" -> write(f, reg)
      [] outcome = "err_before" -> f
      [] outcome = "err_truncated" -> f

save(f, reg, outcome) ==
    CASE outcome = "ok" -> write(set_len(f), reg)
      [] outcome = "err_before" -> f
      [] outcome = "err_truncated" -> set_len(f)

\* ------------------------------------------------------------------------
\* tmutil.rs: the exclusion-flag adapter
\* ------------------------------------------------------------------------
\* are_excluded: one boolean per path, in order
are_excluded(paths, flags) == [i \in 1 .. Len(paths) |-> paths[i] \in flags]

\* add_exclusions: the batch either succeeds for all paths or fails as a whole
add_exclusions(paths, flags, ok) == IF ok THEN flags \cup SeqToSet(paths) ELSE flags

\* remove_exclusion: clears the flag of one path, or fails and changes nothing
remove_exclusion(path, flags, ok) == IF ok THEN flags \ {path} ELSE flags

\* add_exclusion: sets the flag of one path, or fails and changes nothing
add_exclusion(path, flags, ok) == IF ok THEN flags \cup {path} ELSE flags

\* remove_exclusions: the batch either succeeds for all paths or fails as a
\* whole
remove_exclusions(paths, flags, ok) == IF ok THEN flags \ SeqToSet(paths) ELSE flags

\* ------------------------------------------------------------------------
\* disksize.rs
\* ------------------------------------------------------------------------
\* The bytes below a directory; a directory that cannot be read counts 0.
dir_size(path, onDisk) == IF path \in onDisk THEN path - 1 ELSE 0

RECURSIVE calculate_total_size(_, _)
calculate_total_size(paths, onDisk) ==
    IF paths = << >> THEN 0
    ELSE dir_size(Head(paths), onDisk) + calculate_total_size(Tail(paths), onDisk)

\* ------------------------------------------------------------------------
\* scanner.rs, as far as a run depends on it: every path but ManualPath is an
\* artifact directory below a search root whenever it exists on disk.
\* ------------------------------------------------------------------------
traverse(onDisk) == SortSet(onDisk \ {ManualPath})

collect_paths(cfg, onDisk) ==
    SortSet(SeqToSet(traverse(onDisk))
            \cup { e \in SeqToSet(cfg.extra_exclusions) : e \in onDisk })

scan(cfg, onDisk) == collect_paths(cfg, onDisk)

\* ------------------------------------------------------------------------
\* commands/run.rs: the steps of a run as functions of what they read
\* ------------------------------------------------------------------------
RECURSIVE prune_loop(_, _, _, _)
\* the loop of prune_stale over a copy of the path list
prune_loop(entries, paths, count, onDisk) ==
    IF entries = << >> THEN [paths |-> paths, count |-> count]
    ELSE IF Head(entries) \notin onDisk
         THEN prune_loop(Tail(entries), remove(paths, Head(entries)).paths,
                         count + 1, onDisk)
         ELSE prune_loop(Tail(entries), paths, count, onDisk)

\* a prune_stale that counts the stale entries but leaves them registered
prune_stale_counts_only(paths, onDisk) ==
    [paths |-> paths, count |-> prune_loop(paths, paths, 0, onDisk).count]

prune_stale(paths, onDisk) == prune_loop(paths, paths, 0, onDisk)

RECURSIVE ZipFilter(_, _, _)
\* paths.zip(status).filter(status = want).map(path)
ZipFilter(paths, status, want) ==
    IF paths = << >> \/ status = << >> THEN << >>
    ELSE (IF Head(status) = want THEN << Head(paths) >> ELSE << >>)
         \o ZipFilter(Tail(paths), Tail(status), want)

RECURSIVE AddAll(_, _)
\* reg.add for every element of a list, in order
AddAll(paths, new) ==
    IF new = << >> THEN paths ELSE AddAll(add(paths, Head(new)), Tail(new))

\* a reapply_lost that re-flags every registered path, lost or not
reapply_all(paths, flags, ok) ==
    IF paths = << >>
    THEN [count |-> 0, lost |-> << >>, called |-> FALSE, failed |-> FALSE,
          flags |-> flags]
    ELSE [count |-> IF ok THEN Len(paths) ELSE 0,
          lost |-> paths, called |-> TRUE, failed |-> ~ok,
          flags |-> add_exclusions(paths, flags, ok)]

\* reapply_lost: `ok` is the outcome of the batch flag-setting call, were it
\* made.  lost is the list handed to that call, called tells whether it was
\* made, flags the exclusion flags afterwards.
reapply_lost(paths, flags, ok) ==
    LET lost == ZipFilter(paths, are_excluded(paths, flags), FALSE)
    IN  IF paths = << >> \/ lost = << >>
        THEN [count |-> 0, lost |-> << >>, called |-> FALSE, failed |-> FALSE,
              flags |-> flags]
        ELSE [count |-> IF ok THEN Len(lost) ELSE 0,
              lost |-> lost, called |-> TRUE, failed |-> ~ok,
              flags |-> add_exclusions(lost, flags, ok)]

\* a reconcile that registers the unflagged candidates whatever the batch
\* call returned
reconcile_fail_open(paths, candidates, flags, ok) ==
    LET new_candidates == SelectSeq(candidates, LAMBDA c : ~contains(paths, c))
        excluded_status == are_excluded(new_candidates, flags)
        already == ZipFilter(new_candidates, excluded_status, TRUE)
        to_exclude == ZipFilter(new_candidates, excluded_status, FALSE)
    IN  [paths |-> AddAll(AddAll(paths, already), to_exclude),
         added |-> already \o to_exclude,
         new_candidates |-> new_candidates, queried |-> new_candidates # << >>,
         already |-> already, to_exclude |-> to_exclude,
         called |-> to_exclude # << >>,
         failed |-> to_exclude # << >> /\ ~ok,
         flags |-> IF to_exclude # << >>
                   THEN add_exclusions(to_exclude, flags, ok) ELSE flags]

\* a reconcile that hands every new candidate to the batch flag-setting call
\* without looking at the query result
reconcile_sets_all(paths, candidates, flags, ok) ==
    LET new_candidates == SelectSeq(candidates, LAMBDA c : ~contains(paths, c))
    IN  [paths |-> IF ok THEN AddAll(paths, new_candidates) ELSE paths,
         added |-> IF ok THEN new_candidates ELSE << >>,
         new_candidates |-> new_candidates, queried |-> FALSE,
         already |-> << >>, to_exclude |-> new_candidates,
         called |-> new_candidates # << >>,
         failed |-> new_candidates # << >> /\ ~ok,
         flags |-> IF new_candidates # << >>
                   THEN add_exclusions(new_candidates, flags, ok) ELSE flags]

\* a classification that does not filter out the registered candidates
reconcile_unfiltered(paths, candidates, flags, ok) ==
    LET new_candidates == candidates
        excluded_status == are_excluded(new_candidates, flags)
        already == ZipFilter(new_candidates, excluded_status, TRUE)
        to_exclude == ZipFilter(new_candidates, excluded_status, FALSE)
    IN  IF new_candidates = << >>
        THEN [paths |-> paths, added |-> << >>, new_candidates |-> << >>,
              queried |-> FALSE, already |-> << >>, to_exclude |-> << >>,
              called |-> FALSE, failed |-> FALSE, flags |-> flags]
        ELSE IF to_exclude = << >>
        THEN [paths |-> AddAll(paths, already), added |-> already,
              new_candidates |-> new_candidates, queried |-> TRUE,
              already |-> already, to_exclude |-> << >>,
              called |-> FALSE, failed |-> FALSE, flags |-> flags]
        ELSE [paths |-> IF ok THEN AddAll(AddAll(paths, already), to_exclude)
                        ELSE AddAll(paths, already),
              added |-> IF ok THEN already \o to_exclude ELSE already,
              new_candidates |-> new_candidates, queried |-> TRUE,
              already |-> already, to_exclude |-> to_exclude,
              called |-> TRUE, failed |-> ~ok,
              flags |-> add_exclusions(to_exclude, flags, ok)]

\* reconcile: `ok` is the outcome of the batch flag-setting call, were it made
reconcile(paths, candidates, flags, ok) ==
    LET new_candidates == SelectSeq(candidates, LAMBDA c : ~contains(paths, c))
        excluded_status == are_excluded(new_candidates, flags)
        already == ZipFilter(new_candidates, excluded_status, TRUE)
        to_exclude == ZipFilter(new_candidates, excluded_status, FALSE)
    IN  IF new_candidates = << >>
        THEN [paths |-> paths, added |-> << >>, new_candidates |-> << >>,
              queried |-> FALSE, already |-> << >>, to_exclude |-> << >>,
              called |-> FALSE, failed |-> FALSE, flags |-> flags]
        ELSE IF to_exclude = << >>
        THEN [paths |-> AddAll(paths, already), added |-> already,
              new_candidates |-> new_candidates, queried |-> TRUE,
              already |-> already, to_exclude |-> << >>,
              called |-> FALSE, failed |-> FALSE, flags |-> flags]
        ELSE [paths |-> IF ok THEN AddAll(AddAll(paths, already), to_exclude)
                        ELSE AddAll(paths, already),
              added |-> IF ok THEN already \o to_exclude ELSE already,
              new_candidates |-> new_candidates, queried |-> TRUE,
              already |-> already, to_exclude |-> to_exclude,
              called |-> TRUE, failed |-> ~ok,
              flags |-> add_exclusions(to_exclude, flags, ok)]

\* the accounting of execute: the cached total is recomputed when the
\* membership changed
account(reg, stale_count, added, onDisk) ==
    IF stale_count > 0 \/ added # << >>
    THEN LET total == calculate_total_size(reg.paths, onDisk)
         IN  [reg EXCEPT !.saved_bytes = IF total > 0 THEN Some(total) ELSE None]
    ELSE reg

\* a persist decision that always saves
must_save_always(stale_count, re_applied, added) == TRUE

\* a persist decision that forgets the reapplied flags
must_save_ignores_reapplied(stale_count, re_applied, added) ==
    stale_count > 0 \/ added # << >>

\* the persist decision of execute
must_save(stale_count, re_applied, added) ==
    stale_count > 0 \/ re_applied > 0 \/ added # << >>

\* an execute that reapplies before it prunes
StepOrder_reapply_first ==
    << "reapply_lost", "prune_stale", "scan", "reconcile", "persist" >>

\* the order of the reconciliation steps in execute
StepOrder == << "prune_stale", "reapply_lost", "scan", "reconcile", "persist" >>

\* the step execute runs after `step`
step_after(step) ==
    LET i == CHOOSE k \in 1 .. Len(StepOrder) : StepOrder[k] = step
    IN  IF i < Len(StepOrder) THEN StepOrder[i + 1] ELSE "done"

\* a cooldown test that takes a timestamp in the future for a recent one
in_cooldown_trusting(reg, t) ==
    /\ reg.last_update_check # None
    /\ t - reg.last_update_check[1] < UPDATE_COOLDOWN_SECS

\* the cooldown test of auto_update: TRUE when the update check is skipped
in_cooldown(reg, t) ==
    /\ reg.last_update_check # None
    /\ reg.last_update_check[1] <= t
    /\ t - reg.last_update_check[1] < UPDATE_COOLDOWN_SECS

\* ------------------------------------------------------------------------
\* builtins.rs
\* ------------------------------------------------------------------------
BUILTIN_DIRS ==
    { "node_modules", ".next", ".nuxt", "dist", "build", "out", ".turbo",
      ".cache", ".vite", ".vercel", ".output", ".parcel-cache", "coverage",
      ".nyc_output", ".venv", "venv", "__pycache__", ".mypy_cache",
      ".pytest_cache", "target", ".gradle", "vendor", "Pods", ".build",
      ".idea", "tmp", ".tmp" }

\* str::to_lowercase on the names that are probed
to_lowercase(name) ==
    CASE name = "Node_Modules" -> "node_modules"
      [] name = "TARGET" -> "target"
      [] name = "Pods" -> "pods"
      [] name = ".Venv" -> ".venv"
      [] OTHER -> name

\* a match that ignores case
is_builtin_ignoring_case(name) ==
    \E dir \in BUILTIN_DIRS : to_lowercase(dir) = to_lowercase(name)

is_builtin(name) == name \in BUILTIN_DIRS

\* ------------------------------------------------------------------------
\* Paths and the directory tree the scanner walks
\* ------------------------------------------------------------------------
\* A path is the sequence of its components.  The names that occur, in the
\* byte order that the comparison of path components uses.
NameOrder ==
    << ".git", "build", "dist", "link", "notes", "out", "repo", "src",
       "target", "w", "x" >>

NameIndex(name) == CHOOSE i \in 1 .. Len(NameOrder) : NameOrder[i] = name

\* Ord for PathBuf: component by component, a proper prefix first
RECURSIVE path_lt(_, _)
path_lt(a, b) ==
    IF b = << >> THEN FALSE
    ELSE IF a = << >> THEN TRUE
    ELSE IF Head(a) = Head(b) THEN path_lt(Tail(a), Tail(b))
    ELSE NameIndex(Head(a)) < NameIndex(Head(b))

\* Vec::sort on the paths of a set
RECURSIVE sort(_)
sort(S) ==
    IF S = {} THEN << >>
    ELSE LET m == CHOOSE x \in S : \A y \in S \ {x} : path_lt(x, y)
         IN  << m >> \o sort(S \ {m})

\* the orders in which read_dir lists names: of all the orders it may take,
\* the ascending and the descending one
Listings(names) ==
    LET up == sort({ << n >> : n \in names })
    IN  { [i \in 1 .. Len(up) |-> up[i][1]],
          [i \in 1 .. Len(up) |-> up[Len(up) + 1 - i][1]] }

\* every order in which the members of a set can be listed
RECURSIVE Orders(_)
Orders(S) ==
    IF S = {} THEN { << >> }
    ELSE UNION { { << x >> \o o : o \in Orders(S \ {x}) } : x \in S }

Front(s) == SubSeq(s, 1, Len(s) - 1)

Last(s) == s[Len(s)]

\* Path::file_name
file_name(path) == Last(path)

\* The workspace and what can be in it.  /w/link is a symbolic link to /w
\* and /w/dist one to /w/target, /w/notes and /w/src/out are regular files,
\* everything else is a directory.
W == << "w" >>

Symlinks == { W \o << "link" >>, W \o << "dist" >> }

LinkTarget(link) ==
    IF link = W \o << "link" >> THEN W ELSE W \o << "target" >>

Files == { W \o << "notes" >>, W \o << "src", "out" >> }

Dirs ==
    { W,
      W \o << "target" >>, W \o << "target", "build" >>,
      W \o << "src" >>, W \o << "src", "dist" >>,
      W \o << "src", "dist", "build" >>, W \o << "src", ".git" >>,
      W \o << "repo" >>, W \o << "repo", ".git" >> }

\* a path that never exists
Nowhere == << "x" >>

\* the directory trees: /w with its links and its two files, and any of the
\* directories below it whose parent is there
Trees ==
    { t \in SUBSET (Dirs \cup Symlinks \cup Files) :
        /\ W \in t /\ Symlinks \subseteq t /\ W \o << "notes" >> \in t
        /\ \A d \in t : Len(d) > 1 => Front(d) \in t
        /\ W \o << "src" >> \in t => W \o << "src", "out" >> \in t }

\* the path with every symbolic link on the way replaced by its target
RECURSIVE Resolve(_, _)
Resolve(tree, path) ==
    IF path = << >> THEN << >>
    ELSE LET q == Append(Resolve(tree, Front(path)), Last(path))
         IN  IF q \in tree /\ q \in Symlinks THEN LinkTarget(q) ELSE q

\* Path::is_dir, which follows symbolic links
is_dir(tree, path) ==
    LET q == Resolve(tree, path) IN q \in tree /\ q \in Dirs

\* fs::read_dir: the names in a directory
read_dir(tree, dir) ==
    LET q == Resolve(tree, dir)
    IN  { Last(c) : c \in { c \in tree : Len(c) = Len(q) + 1 /\ Front(c) = q } }

\* DirEntry::file_type, which does not follow a symbolic link
file_type(tree, dir, name) ==
    LET c == Append(Resolve(tree, dir), name)
    IN  IF c \in Symlinks THEN "symlink"
        ELSE IF c \in Dirs THEN "dir" ELSE "file"

\* ------------------------------------------------------------------------
\* scanner.rs: the git sub-scan
\* ------------------------------------------------------------------------
\* The output of `git ls-files --ignored --others --exclude-standard -z` is a
\* text: a sequence of characters, of which only the separator, the NUL and
\* the white space are told apart from the names between them.
SEP == "/"

NUL == "NUL"

WhiteSpace == { " " }

\* One entry of the listing: the components of an ignored, untracked path
\* relative to the repository root; git prints a directory it does not list
\* the contents of (an embedded repository) with a trailing separator.
RECURSIVE join_sep(_)
join_sep(comps) ==
    IF Len(comps) <= 1 THEN comps
    ELSE << Head(comps), SEP >> \o join_sep(Tail(comps))

\* what git prints for a list of entries: each path, NUL-terminated
RECURSIVE ls_files(_)
ls_files(entries) ==
    IF entries = << >> THEN << >>
    ELSE join_sep(Head(entries).comps)
           \o (IF Head(entries).dir THEN << SEP >> ELSE << >>)
           \o << NUL >> \o ls_files(Tail(entries))

\* str::split: the pieces between the occurrences of a separator
RECURSIVE split(_, _)
split(text, sep) ==
    IF \A i \in 1 .. Len(text) : text[i] # sep THEN << text >>
    ELSE LET i == CHOOSE i \in 1 .. Len(text) :
                    text[i] = sep /\ \A j \in 1 .. i - 1 : text[j] # sep
         IN  << SubSeq(text, 1, i - 1) >>
               \o split(SubSeq(text, i + 1, Len(text)), sep)

\* a name without the white space it starts with: of the names used here
\* only " target" starts with white space
trim_start(name) == IF name = " target" THEN "target" ELSE name

\* str::trim: the white space at both ends of the line goes, also where it
\* is part of the first name
RECURSIVE trim(_)
trim(line) ==
    IF line = << >> THEN line
    ELSE IF Head(line) \in WhiteSpace THEN trim(Tail(line))
    ELSE IF Last(line) \in WhiteSpace THEN trim(Front(line))
    ELSE << trim_start(Head(line)) >> \o Tail(line)

\* Path::components: the non-empty pieces between separators, after the root
\* component of an absolute path
components(line) ==
    LET pieces == split(line, SEP)
        named == SelectSeq(pieces, LAMBDA piece : piece # << >>)
        names == [i \in 1 .. Len(named) |-> named[i][1]]
    IN  IF line # << >> /\ Head(line) = SEP THEN << SEP >> \o names ELSE names

\* Path::join: an absolute path replaces the base
join(base, path) ==
    IF path # << >> /\ Head(path) = SEP THEN Tail(path) ELSE base \o path

\* the prefix that ends at the last artifact name
last_builtin_prefix(comps) ==
    LET hits == { i \in 1 .. Len(comps) : is_builtin(comps[i]) }
    IN  IF hits = {} THEN None
        ELSE Some(SubSeq(comps, 1, CHOOSE i \in hits : \A j \in hits : i >= j))

\* the prefix of the components that ends at the first artifact name, if any
first_builtin_prefix(comps) ==
    LET hits == { i \in 1 .. Len(comps) : is_builtin(comps[i]) }
    IN  IF hits = {} THEN None
        ELSE Some(SubSeq(comps, 1, CHOOSE i \in hits : \A j \in hits : i <= j))

\* a parse that reports the whole path of every entry
parse_git_ignored_whole_entries(repo_path, output) ==
    LET lines == split(output, NUL)
    IN  { join(repo_path, components(trim(lines[i]))) :
            i \in { i \in 1 .. Len(lines) : trim(lines[i]) # << >> } }

\* parse_git_ignored: the set `dirs` it collects
parse_git_ignored(repo_path, output) ==
    LET lines == split(output, NUL)
        found == { i \in 1 .. Len(lines) :
                     /\ trim(lines[i]) # << >>
                     /\ first_builtin_prefix(components(trim(lines[i]))) # None }
    IN  { join(repo_path, first_builtin_prefix(components(trim(lines[i])))[1]) :
            i \in found }

\* how the git command of one repository ends: it does not start, or it
\* exits non-zero having printed some entries, or it exits zero
SpawnError == [kind |-> "spawn_error", stdout |-> << >>]

NonZeroExit(entries) == [kind |-> "nonzero", stdout |-> ls_files(entries)]

Listed(entries) == [kind |-> "ok", stdout |-> ls_files(entries)]

\* a sub-scan that takes the listing of a failed command as it is
scan_git_repo_ignores_status(repo_path, outcome) ==
    parse_git_ignored(repo_path, outcome.stdout)

\* scan_git_repo: nothing for a command that did not start or exited
\* non-zero, the parsed listing otherwise
scan_git_repo(repo_path, outcome) ==
    IF outcome.kind = "spawn_error" THEN {}
    ELSE IF outcome.kind = "nonzero" THEN {}
    ELSE parse_git_ignored(repo_path, outcome.stdout)

\* ------------------------------------------------------------------------
\* scanner.rs: the worker pool of traverse
\* ------------------------------------------------------------------------
\* the divisor of the chunk size
POOL == 8

\* (git_repos.len() / 8).max(1)
chunk_size(n) == IF n \div POOL > 1 THEN n \div POOL ELSE 1

\* slice::chunks: consecutive pieces of the given size, the last one shorter
RECURSIVE chunks(_, _)
chunks(s, size) ==
    IF s = << >> THEN << >>
    ELSE IF Len(s) <= size THEN << s >>
    ELSE << SubSeq(s, 1, size) >> \o chunks(SubSeq(s, size + 1, Len(s)), size)

\* Iterator::flatten on a sequence of sequences
RECURSIVE concat(_)
concat(ss) == IF ss = << >> THEN << >> ELSE Head(ss) \o concat(Tail(ss))

\* ------------------------------------------------------------------------
\* State
\* ------------------------------------------------------------------------
VARIABLES
    file,       \* contents of registry.json
    lock,       \* the process that holds the exclusive flock on it, or NoProc
    exists,     \* the directories that exist on disk
    flagged,    \* the directories that carry the backup-exclusion flag
    config,     \* contents of the configuration file
    envSteps,   \* changes made by the environment so far
    st,         \* per process: the position and the locals of its command
    sc          \* the scan under way: its position, its inputs and its locals

vars == << file, lock, exists, flagged, config, envSteps, st, sc >>

AbsentFile == [kind |-> "absent", json |-> << >>]

\* A process that has not started a command; the fields after `cause` record
\* what the command did and are not read by it.
IdleProc ==
    [pc |-> "idle", cfg |-> [auto_update |-> FALSE, extra_exclusions |-> << >>],
     guard |-> FALSE, reg |-> DefaultRegistry,
     stale_count |-> 0, re_applied |-> 0, candidates |-> << >>, added |-> << >>,
     result |-> "none", cause |-> "none", path |-> NoPath,
     acquires |-> 0, saves |-> 0, loaded |-> AbsentFile, trace |-> << >>,
     pruned |-> {}, kept |-> {},
     lost |-> << >>, lostCalled |-> FALSE, lostFailed |-> FALSE, unflagged |-> {},
     new_candidates |-> << >>, wasMember |-> {}, flagsSeen |-> {},
     queried |-> FALSE,
     already |-> << >>, to_exclude |-> << >>,
     setCalled |-> FALSE, setFailed |-> FALSE,
     checked |-> FALSE,
     now |-> 0, cmd |-> "none", listed |-> << >>, onDisk |-> {}, batch |-> "none",
     batchArgs |-> << >>, retried |-> << >>, refused |-> {}, failed |-> << >>,
     before |-> [flagged |-> {}, extra_exclusions |-> << >>, file |-> AbsentFile]]

\* No scan under way.  `tree` is the directory tree and `git` what the git
\* command answers for each repository; `walked`, `read` and `pushed` record
\* what the walk did and are not read by it.
IdleScan ==
    [pc |-> "idle", tree |-> {}, git |-> << >>,
     cfg |-> [search_paths |-> << >>, ignore_paths |-> << >>,
              extra_exclusions |-> << >>],
     stack |-> << >>, results |-> << >>, git_repos |-> << >>,
     chunks |-> << >>, handles |-> << >>, joined |-> 0,
     found |-> << >>, candidates |-> << >>,
     walked |-> << >>, read |-> {}, pushed |-> {},
     repo |-> << >>, ignored |-> << >>, listing |-> << >>,
     outcome |-> [kind |-> "none", stdout |-> << >>], dirs |-> << >>]

\* A fresh installation: no registry file yet, every directory but one (which
\* a later build creates) on disk and none of them flagged, and a
\* configuration file that names the manual path
Init ==
    /\ file = AbsentFile
    /\ lock = NoProc
    /\ exists = Paths \ {Min(Paths)}
    /\ flagged = {}
    /\ config \in { [auto_update |-> a, extra_exclusions |-> << ManualPath >>] :
                      a \in BOOLEAN }
    /\ envSteps = 0
    /\ st = [p \in Procs |-> IdleProc]
    /\ sc = IdleScan

\* The registries a run can find in the file: save writes the paths in the
\* order add keeps them in, and auto_update writes last_update_check
Registries ==
    { [paths |-> ps, saved_bytes |-> None, last_update_check |-> lc] :
        ps \in { SortSet(S) : S \in SUBSET Paths }, lc \in {None, Some(1)} }

\* Any installation a single run can start from
RunInit ==
    /\ file \in {AbsentFile, MalformedFile} \cup { JsonFile(r) : r \in Registries }
    /\ lock = NoProc
    /\ exists \in SUBSET Paths
    /\ flagged \in SUBSET exists
    /\ config \in { [auto_update |-> a, extra_exclusions |-> e] :
                      a \in BOOLEAN, e \in {<< >>, << ManualPath >>} }
    /\ envSteps = 0
    /\ st = [p \in Procs |-> IdleProc]
    /\ sc = IdleScan

\* The registries of an installation that has run before: the sizes may be
\* stored, and the time of the last update check may lie behind or ahead of
\* the clock
WideRegistries ==
    { [paths |-> ps, saved_bytes |-> sb, last_update_check |-> lc] :
        ps \in { SortSet(S) : S \in SUBSET Paths },
        sb \in {None, Some(1)},
        lc \in {None, Some(1), Some(UPDATE_COOLDOWN_SECS + 1)} }

\* Any installation a single run can start from, those included; what the
\* run finds is kept in `before`
WideInit ==
    /\ file \in {AbsentFile, MalformedFile} \cup { JsonFile(r) : r \in WideRegistries }
    /\ lock = NoProc
    /\ exists \in SUBSET Paths
    /\ flagged \in SUBSET exists
    /\ config \in { [auto_update |-> a, extra_exclusions |-> e] :
                      a \in BOOLEAN, e \in {<< >>, << ManualPath >>} }
    /\ envSteps = 0
    /\ st = [p \in Procs |->
               [IdleProc EXCEPT
                  !.before = [flagged |-> flagged,
                              extra_exclusions |-> config.extra_exclusions,
                              file |-> file]]]
    /\ sc = IdleScan

\* ------------------------------------------------------------------------
\* registry.rs: acquiring and dropping the guard
\* ------------------------------------------------------------------------
\* a lock call that does not wait for the holder (a shared or missing lock)
lock_without_waiting(p) == lock' = p

\* fs::File::lock_exclusive returns once no other open file holds the lock
lock_exclusive(p) == lock = NoProc /\ lock' = p

\* LockedRegistry::acquire, successful: opens the file, creating it when it
\* is absent, and blocks for the exclusive lock
acquire(p, next) ==
    /\ lock_exclusive(p)
    /\ file' = IF file.kind = "absent" THEN EmptyFile ELSE file
    /\ st' = [st EXCEPT ![p].pc = next, ![p].guard = TRUE,
                        ![p].acquires = @ + 1]

\* Registry::locked fails: registry_path, create_dir_all, open or
\* lock_exclusive returned an error; no guard exists afterwards
acquire_fails(p) ==
    /\ st' = [st EXCEPT ![p].pc = "done", ![p].result = "err",
                        ![p].cause = "lock"]
    /\ UNCHANGED << file, lock >>

\* a guard whose drop leaves the file open, and the lock with it
drop_leaks(p) == lock' = lock

\* Dropping the guard closes the file, which releases the lock
drop(p) == lock' = IF lock = p THEN NoProc ELSE lock

\* An error return of execute or auto_update: the guard, if any, is dropped
fail(p, cause) ==
    st' = [st EXCEPT ![p].pc = "done", ![p].result = "err", ![p].cause = cause,
                     ![p].guard = FALSE]

\* A command that has returned exits before anything else happens
NoneDone == \A p \in Procs : st[p].pc # "done"

\* ------------------------------------------------------------------------
\* config.rs: the guard of the configuration file
\* ------------------------------------------------------------------------
\* the positions of add, remove and reset between their Config::locked and
\* their return, which drops cfg_guard
CfgGuardPcs ==
    { "add_locked", "add_save", "rm_locked", "rm_load", "rm_save",
      "rs_locked", "rs_save" }

\* Config::locked returns once no other process holds the guard of the
\* configuration file
config_locked(p) == \A q \in Procs \ {p} : st[q].pc \notin CfgGuardPcs

\* ------------------------------------------------------------------------
\* commands/run.rs: execute and auto_update, one action per step
\* ------------------------------------------------------------------------
\* an execute that never calls auto_update
RunStart_never_updates(p) ==
    /\ st[p].pc = "idle"
    /\ NoneDone
    /\ \A q \in Procs : q < p => st[q].pc # "idle"
    /\ \/ st' = [st EXCEPT ![p].pc = "done", ![p].result = "err",
                           ![p].cause = "config"]
       \/ st' = [st EXCEPT ![p].cfg = config, ![p].pc = "locked"]
    /\ UNCHANGED << file, lock, exists, flagged, config, envSteps, sc >>

\* execute: config::load()?, then the branch on config.auto_update
RunStart(p) ==
    /\ st[p].pc = "idle"
    /\ NoneDone
    /\ \A q \in Procs : q < p => st[q].pc # "idle"
    /\ \/ st' = [st EXCEPT ![p].pc = "done", ![p].result = "err",
                           ![p].cause = "config"]
       \/ st' = [st EXCEPT ![p].cfg = config,
                           ![p].pc = IF config.auto_update THEN "auto_update"
                                     ELSE "locked",
                           ![p].cmd = "run"]
    /\ UNCHANGED << file, lock, exists, flagged, config, envSteps, sc >>

\* auto_update: Registry::locked()?
AutoUpdateLocked(p) ==
    /\ st[p].pc = "auto_update"
    /\ NoneDone
    /\ acquire(p, "au_load") \/ acquire_fails(p)
    /\ UNCHANGED << exists, flagged, config, envSteps, sc >>

\* auto_update: guard.load()? and the reading of the clock
AutoUpdateLoad(p) ==
    /\ st[p].pc = "au_load"
    /\ NoneDone
    /\ \/ fail(p, "load") /\ drop(p)
       \/ /\ \E t \in now_epoch :
                st' = [st EXCEPT ![p].pc = "au_test", ![p].now = t]
          /\ UNCHANGED lock
    /\ UNCHANGED << file, exists, flagged, config, envSteps, sc >>

\* auto_update: the cooldown test, and either the early return or the save
\* of the new timestamp followed by drop(guard)
AutoUpdateCooldown(p) ==
    /\ st[p].pc = "au_test"
    /\ NoneDone
    /\ LET reg == load(file)
           t == st[p].now
       IN  IF in_cooldown(reg, t)
           THEN /\ st' = [st EXCEPT ![p].pc = "locked", ![p].guard = FALSE,
                                    ![p].now = 0]
                /\ UNCHANGED file
           ELSE \E outcome \in SaveOutcomes :
                  /\ file' = save(file, [reg EXCEPT !.last_update_check = Some(t)],
                                  outcome)
                  /\ IF outcome = "ok"
                     THEN st' = [st EXCEPT ![p].pc = "au_check",
                                           ![p].guard = FALSE, ![p].now = 0]
                     ELSE st' = [st EXCEPT ![p].pc = "done", ![p].result = "err",
                                           ![p].cause = "save",
                                           ![p].guard = FALSE, ![p].now = 0]
    /\ drop(p)
    /\ UNCHANGED << exists, flagged, config, envSteps, sc >>

\* auto_update: updater::check() and daemon::restart(), whose results are
\* only reported
UpdaterCheck(p) ==
    /\ st[p].pc = "au_check"
    /\ NoneDone
    /\ st' = [st EXCEPT ![p].pc = "locked", ![p].checked = TRUE]
    /\ UNCHANGED << file, lock, exists, flagged, config, envSteps, sc >>

\* execute: Registry::locked()?
ExecuteLocked(p) ==
    /\ st[p].pc = "locked"
    /\ NoneDone
    /\ acquire(p, "load") \/ acquire_fails(p)
    /\ UNCHANGED << exists, flagged, config, envSteps, sc >>

\* a run that gives the guard back as soon as the registry is loaded
ExecuteLoad_unlocked(p) ==
    /\ st[p].pc = "load"
    /\ NoneDone
    /\ st' = [st EXCEPT ![p].pc = StepOrder[1], ![p].reg = load(file),
                        ![p].loaded = file, ![p].guard = FALSE]
    /\ drop(p)
    /\ UNCHANGED << file, exists, flagged, config, envSteps, sc >>

\* execute: guard.load()?
ExecuteLoad(p) ==
    /\ st[p].pc = "load"
    /\ NoneDone
    /\ \/ fail(p, "load") /\ drop(p)
       \/ /\ st' = [st EXCEPT ![p].pc = StepOrder[1], ![p].reg = load(file),
                              ![p].loaded = file]
          /\ UNCHANGED lock
    /\ UNCHANGED << file, exists, flagged, config, envSteps, sc >>

\* execute: prune_stale(&mut reg)
PruneStale(p) ==
    /\ st[p].pc = "prune_stale"
    /\ NoneDone
    /\ LET r == prune_stale(st[p].reg.paths, exists)
       IN  st' = [st EXCEPT ![p].pc = step_after("prune_stale"),
                            ![p].reg.paths = r.paths,
                            ![p].stale_count = r.count,
                            ![p].pruned = SeqToSet(st[p].reg.paths) \ exists,
                            ![p].kept = SeqToSet(st[p].reg.paths) \cap exists,
                            ![p].trace = Append(@, "prune_stale")]
    /\ UNCHANGED << file, lock, exists, flagged, config, envSteps, sc >>

\* execute: reapply_lost(&reg)
ReapplyLost(p) ==
    /\ st[p].pc = "reapply_lost"
    /\ NoneDone
    /\ \E ok \in BOOLEAN :
         LET r == reapply_lost(st[p].reg.paths, flagged, ok)
         IN  /\ st' = [st EXCEPT ![p].pc = step_after("reapply_lost"),
                                 ![p].re_applied = r.count,
                                 ![p].lost = r.lost,
                                 ![p].lostCalled = r.called,
                                 ![p].lostFailed = r.failed,
                                 ![p].unflagged = SeqToSet(st[p].reg.paths) \ flagged,
                                 ![p].trace = Append(@, "reapply_lost")]
             /\ flagged' = r.flags
    /\ UNCHANGED << file, lock, exists, config, envSteps, sc >>

\* execute: scanner::scan(&config)
Scan(p) ==
    /\ st[p].pc = "scan"
    /\ NoneDone
    /\ st' = [st EXCEPT ![p].pc = step_after("scan"),
                        ![p].candidates = scan(st[p].cfg, exists),
                        ![p].trace = Append(@, "scan")]
    /\ UNCHANGED << file, lock, exists, flagged, config, envSteps, sc >>

\* a reconcile step whose batch failure is returned with `?`
Reconcile_propagates(p) ==
    /\ st[p].pc = "reconcile"
    /\ NoneDone
    /\ \E ok \in BOOLEAN :
         LET r == reconcile(st[p].reg.paths, st[p].candidates, flagged, ok)
         IN  /\ st' = [st EXCEPT ![p].pc = IF r.failed THEN "done"
                                           ELSE step_after("reconcile"),
                                 ![p].result = IF r.failed THEN "err" ELSE @,
                                 ![p].cause = IF r.failed THEN "adapter" ELSE @,
                                 ![p].guard = IF r.failed THEN FALSE ELSE @,
                                 ![p].reg.paths = r.paths,
                                 ![p].added = r.added,
                                 ![p].new_candidates = r.new_candidates,
                                 ![p].wasMember = SeqToSet(st[p].reg.paths),
                                 ![p].flagsSeen = flagged,
                                 ![p].queried = r.queried,
                                 ![p].already = r.already,
                                 ![p].to_exclude = r.to_exclude,
                                 ![p].setCalled = r.called,
                                 ![p].setFailed = r.failed,
                                 ![p].trace = Append(@, "reconcile")]
             /\ flagged' = r.flags
             /\ lock' = IF r.failed /\ lock = p THEN NoProc ELSE lock
    /\ UNCHANGED << file, exists, config, envSteps, sc >>

\* execute: reconcile(&mut reg, candidates)
Reconcile(p) ==
    /\ st[p].pc = "reconcile"
    /\ NoneDone
    /\ \E ok \in BOOLEAN :
         LET r == reconcile(st[p].reg.paths, st[p].candidates, flagged, ok)
         IN  /\ st' = [st EXCEPT ![p].pc = step_after("reconcile"),
                                 ![p].reg.paths = r.paths,
                                 ![p].added = r.added,
                                 ![p].new_candidates = r.new_candidates,
                                 ![p].wasMember = SeqToSet(st[p].reg.paths),
                                 ![p].flagsSeen = flagged,
                                 ![p].queried = r.queried,
                                 ![p].already = r.already,
                                 ![p].to_exclude = r.to_exclude,
                                 ![p].setCalled = r.called,
                                 ![p].setFailed = r.failed,
                                 ![p].trace = Append(@, "reconcile")]
             /\ flagged' = r.flags
    /\ UNCHANGED << file, lock, exists, config, envSteps, sc >>

\* execute: the accounting, the conditional guard.save(&reg)? and the return,
\* which drops the guard
Persist(p) ==
    /\ st[p].pc = "persist"
    /\ NoneDone
    /\ LET reg == account(st[p].reg, st[p].stale_count, st[p].added, exists)
       IN  IF must_save(st[p].stale_count, st[p].re_applied, st[p].added)
           THEN \E outcome \in SaveOutcomes :
                  /\ file' = save(file, reg, outcome)
                  /\ st' = [st EXCEPT ![p].pc = "done", ![p].reg = reg,
                                      ![p].guard = FALSE,
                                      ![p].saves = @ + 1,
                                      ![p].result = IF outcome = "ok" THEN "ok" ELSE "err",
                                      ![p].cause = IF outcome = "ok" THEN "none" ELSE "save",
                                      ![p].trace = Append(@, "persist")]
           ELSE /\ UNCHANGED file
                /\ st' = [st EXCEPT ![p].pc = "done", ![p].reg = reg,
                                    ![p].guard = FALSE, ![p].result = "ok",
                                    ![p].trace = Append(@, "persist")]
    /\ drop(p)
    /\ UNCHANGED << exists, flagged, config, envSteps, sc >>

\* The process exits: main returns the result of the command to the shell
Exit(p) ==
    /\ st[p].pc = "done"
    /\ st' = [st EXCEPT ![p] = [IdleProc EXCEPT !.pc = "exited",
                                                !.result = st[p].result,
                                                !.saves = st[p].saves]]
    /\ UNCHANGED << file, lock, exists, flagged, config, envSteps, sc >>

\* ------------------------------------------------------------------------
\* The environment
\* ------------------------------------------------------------------------
\* The environment is observed by a run only while the run holds the guard
Running == \E p \in Procs : st[p].guard

\* a directory is deleted; its flag goes with it
Vanish(x) ==
    /\ NoneDone /\ envSteps < MaxEnvSteps /\ Running
    /\ x \in exists
    /\ exists' = exists \ {x}
    /\ flagged' = flagged \ {x}
    /\ envSteps' = envSteps + 1
    /\ UNCHANGED << file, lock, config, st, sc >>

\* a directory is created
Appear(x) ==
    /\ NoneDone /\ envSteps < MaxEnvSteps /\ Running
    /\ x \notin exists
    /\ exists' = exists \cup {x}
    /\ envSteps' = envSteps + 1
    /\ UNCHANGED << file, lock, flagged, config, st, sc >>

\* another tool clears or sets the flag of a directory
Drift(x) ==
    /\ NoneDone /\ envSteps < MaxEnvSteps /\ Running
    /\ x \in exists
    /\ flagged' = IF x \in flagged THEN flagged \ {x} ELSE flagged \cup {x}
    /\ envSteps' = envSteps + 1
    /\ UNCHANGED << file, lock, exists, config, st, sc >>

\* ------------------------------------------------------------------------
\* commands/remove.rs
\* ------------------------------------------------------------------------
\* Vec::position followed by Vec::remove: the first occurrence goes
RECURSIVE remove_first(_, _)
remove_first(s, x) ==
    IF s = << >> THEN << >>
    ELSE IF Head(s) = x THEN Tail(s)
    ELSE << Head(s) >> \o remove_first(Tail(s), x)

\* Option::unwrap_or
unwrap_or(opt, default) == IF opt = None THEN default ELSE opt[1]

\* u64::saturating_sub
saturating_sub(a, b) == IF a > b THEN a - b ELSE 0

\* execute: the lookup path, and tmutil::remove_exclusion when the path
\* exists, whose failure is only reported
RemoveStart(p, path) ==
    /\ st[p].pc = "idle"
    /\ NoneDone
    /\ \A q \in Procs : q < p => st[q].pc # "idle"
    /\ st' = [st EXCEPT ![p].pc = "rm_config", ![p].path = path,
                        ![p].cmd = "remove"]
    /\ \E ok \in BOOLEAN :
         flagged' = IF path \in exists THEN remove_exclusion(path, flagged, ok)
                    ELSE flagged
    /\ UNCHANGED << file, lock, exists, config, envSteps, sc >>

\* execute: the path leaves extra_exclusions of the configuration file, under
\* the configuration's own guard; an error of that guard is returned
RemoveConfig(p) ==
    /\ st[p].pc = "rm_config"
    /\ NoneDone
    /\ \/ /\ st' = [st EXCEPT ![p].pc = "done", ![p].result = "err",
                              ![p].cause = "config"]
          /\ UNCHANGED config
       \/ /\ config_locked(p)
          /\ st' = [st EXCEPT ![p].pc = "rm_locked"]
          /\ config' = [config EXCEPT
                          !.extra_exclusions = remove_first(@, st[p].path)]
    /\ UNCHANGED << file, lock, exists, flagged, envSteps, sc >>

\* execute: Registry::locked()?
RemoveLocked(p) ==
    /\ st[p].pc = "rm_locked"
    /\ NoneDone
    /\ acquire(p, "rm_load") \/ acquire_fails(p)
    /\ UNCHANGED << exists, flagged, config, envSteps, sc >>

\* a remove that writes the registry back before it looks for the path
RemoveLoad_saves_first(p) ==
    /\ st[p].pc = "rm_load"
    /\ NoneDone
    /\ LET reg == load(file)
       IN  /\ file' = save(file, reg, "ok")
           /\ IF contains(reg.paths, st[p].path)
              THEN /\ st' = [st EXCEPT ![p].pc = "rm_save", ![p].reg = reg,
                                       ![p].loaded = file]
                   /\ UNCHANGED lock
              ELSE fail(p, "not_managed") /\ drop(p)
    /\ UNCHANGED << exists, flagged, config, envSteps, sc >>

\* execute: guard.load()? and the early return for a path that is not
\* registered
RemoveLoad(p) ==
    /\ st[p].pc = "rm_load"
    /\ NoneDone
    /\ \/ fail(p, "load") /\ drop(p)
       \/ LET reg == load(file)
          IN  IF contains(reg.paths, st[p].path)
              THEN /\ st' = [st EXCEPT ![p].pc = "rm_save", ![p].reg = reg,
                                       ![p].loaded = file]
                   /\ UNCHANGED lock
              ELSE fail(p, "not_managed") /\ drop(p)
    /\ UNCHANGED << file, exists, flagged, config, envSteps, sc >>

\* execute: the size accounting, reg.remove, guard.save(&reg)? and the return
RemoveSave(p) ==
    /\ st[p].pc = "rm_save"
    /\ NoneDone
    /\ LET removed_size == dir_size(st[p].path, exists)
           sized == IF removed_size > 0
                    THEN [st[p].reg EXCEPT !.saved_bytes =
                            Some(saturating_sub(unwrap_or(@, 0), removed_size))]
                    ELSE st[p].reg
           reg == [sized EXCEPT !.paths = remove(@, st[p].path).paths]
       IN  \E outcome \in SaveOutcomes :
             /\ file' = save(file, reg, outcome)
             /\ st' = [st EXCEPT ![p].pc = "done", ![p].reg = reg,
                                 ![p].guard = FALSE,
                                 ![p].saves = @ + 1,
                                 ![p].result = IF outcome = "ok" THEN "ok" ELSE "err",
                                 ![p].cause = IF outcome = "ok" THEN "none" ELSE "save"]
    /\ drop(p)
    /\ UNCHANGED << exists, flagged, config, envSteps, sc >>

Next ==
    \/ \E p \in Procs : Exit(p)
    \/ \E p \in Procs : RunStart(p)
    \/ \E p \in Procs : AutoUpdateLocked(p)
    \/ \E p \in Procs : AutoUpdateLoad(p)
    \/ \E p \in Procs : AutoUpdateCooldown(p)
    \/ \E p \in Procs : UpdaterCheck(p)
    \/ \E p \in Procs : ExecuteLocked(p)
    \/ \E p \in Procs : ExecuteLoad(p)
    \/ \E p \in Procs : PruneStale(p)
    \/ \E p \in Procs : ReapplyLost(p)
    \/ \E p \in Procs : Scan(p)
    \/ \E p \in Procs : Reconcile(p)
    \/ \E p \in Procs : Persist(p)
    \/ \E x \in Paths : Vanish(x)
    \/ \E x \in Paths : Appear(x)
    \/ \E x \in Paths : Drift(x)

\* Concurrent invocations of `veiled run` on a fresh installation
Spec == Init /\ [][Next]_vars

\* the process of a single invocation
Solo == { p \in Procs : \A q \in Procs : p <= q }

RunNext ==
    \/ \E p \in Solo : Exit(p)
    \/ \E p \in Solo : RunStart(p)
    \/ \E p \in Solo : AutoUpdateLocked(p)
    \/ \E p \in Solo : AutoUpdateLoad(p)
    \/ \E p \in Solo : AutoUpdateCooldown(p)
    \/ \E p \in Solo : UpdaterCheck(p)
    \/ \E p \in Solo : ExecuteLocked(p)
    \/ \E p \in Solo : ExecuteLoad(p)
    \/ \E p \in Solo : PruneStale(p)
    \/ \E p \in Solo : ReapplyLost(p)
    \/ \E p \in Solo : Scan(p)
    \/ \E p \in Solo : Reconcile(p)
    \/ \E p \in Solo : Persist(p)
    \/ \E x \in Paths : Vanish(x)
    \/ \E x \in Paths : Appear(x)
    \/ \E x \in Paths : Drift(x)

\* One invocation of `veiled run` on any installation, with the environment
\* changing under it
RunSpec == RunInit /\ [][RunNext]_vars

\* One invocation of `veiled run` on an installation that has run before
WideSpec == WideInit /\ [][RunNext]_vars

\* the steps of one process, running `veiled run` or `veiled remove <path>`
Proc(p) ==
    \/ Exit(p)
    \/ RunStart(p)
    \/ AutoUpdateLocked(p)
    \/ AutoUpdateLoad(p)
    \/ AutoUpdateCooldown(p)
    \/ UpdaterCheck(p)
    \/ ExecuteLocked(p)
    \/ ExecuteLoad(p)
    \/ PruneStale(p)
    \/ ReapplyLost(p)
    \/ Scan(p)
    \/ Reconcile(p)
    \/ Persist(p)
    \/ \E path \in Paths : RemoveStart(p, path)
    \/ RemoveConfig(p)
    \/ RemoveLocked(p)
    \/ RemoveLoad(p)
    \/ RemoveSave(p)

LockNext ==
    \/ \E p \in Procs : Exit(p)
    \/ \E p \in Procs : RunStart(p)
    \/ \E p \in Procs : AutoUpdateLocked(p)
    \/ \E p \in Procs : AutoUpdateLoad(p)
    \/ \E p \in Procs : AutoUpdateCooldown(p)
    \/ \E p \in Procs : UpdaterCheck(p)
    \/ \E p \in Procs : ExecuteLocked(p)
    \/ \E p \in Procs : ExecuteLoad(p)
    \/ \E p \in Procs : PruneStale(p)
    \/ \E p \in Procs : ReapplyLost(p)
    \/ \E p \in Procs : Scan(p)
    \/ \E p \in Procs : Reconcile(p)
    \/ \E p \in Procs : Persist(p)
    \/ \E p \in Procs, path \in Paths : RemoveStart(p, path)
    \/ \E p \in Procs : RemoveConfig(p)
    \/ \E p \in Procs : RemoveLocked(p)
    \/ \E p \in Procs : RemoveLoad(p)
    \/ \E p \in Procs : RemoveSave(p)

\* Concurrent `veiled run` and `veiled remove` commands on a fresh
\* installation, every started command going on until it returns: a process
\* that can take a step eventually takes one
LockSpec ==
    Init /\ [][LockNext]_vars /\ \A p \in Procs : WF_vars(Proc(p))

\* ------------------------------------------------------------------------
\* commands/add.rs and commands/reset.rs
\* ------------------------------------------------------------------------
\* a command begins: main calls tmutil::check_access before it
Begins(p) ==
    /\ st[p].pc = "idle"
    /\ NoneDone
    /\ \A q \in Procs : q < p => st[q].pc # "idle"

\* a path that is a regular file on disk
RegularFile == NumPaths + 1

\* an add that sets the flag before it looks at the path
AddStart_flags_first(p, path) ==
    /\ Begins(p)
    /\ flagged' = add_exclusion(path, flagged, TRUE)
    /\ IF path \in exists
       THEN st' = [st EXCEPT ![p].pc = "add_config", ![p].cmd = "add",
                             ![p].path = path]
       ELSE st' = [st EXCEPT ![p].pc = "done", ![p].cmd = "add",
                             ![p].path = path, ![p].result = "err",
                             ![p].cause = "path"]
    /\ UNCHANGED << file, lock, exists, config, envSteps, sc >>

\* an add that goes on when the flag could not be set
AddStart_goes_on(p, path) ==
    /\ Begins(p)
    /\ \E ok \in BOOLEAN :
         IF path \in exists
         THEN /\ flagged' = add_exclusion(path, flagged, ok)
              /\ st' = [st EXCEPT ![p].pc = "add_config", ![p].cmd = "add",
                                  ![p].path = path, ![p].setCalled = TRUE,
                                  ![p].setFailed = ~ok]
         ELSE /\ UNCHANGED flagged
              /\ st' = [st EXCEPT ![p].pc = "done", ![p].cmd = "add",
                                  ![p].path = path, ![p].result = "err",
                                  ![p].cause = "path"]
    /\ UNCHANGED << file, lock, exists, config, envSteps, sc >>

\* add: fs::canonicalize, which fails for a path that is not on disk,
\* is_dir, which fails for a regular file, and
\* tmutil::add_exclusion(&canonical)?
AddStart(p, path) ==
    /\ Begins(p)
    /\ IF path \notin exists
       THEN /\ UNCHANGED flagged
            /\ st' = [st EXCEPT ![p].pc = "done", ![p].cmd = "add",
                                ![p].path = path, ![p].result = "err",
                                ![p].cause = IF path = RegularFile
                                             THEN "not_dir" ELSE "path"]
       ELSE \E ok \in BOOLEAN :
              /\ flagged' = add_exclusion(path, flagged, ok)
              /\ st' = [st EXCEPT
                           ![p].pc = IF ok THEN "add_config" ELSE "done",
                           ![p].cmd = "add", ![p].path = path,
                           ![p].setCalled = TRUE, ![p].setFailed = ~ok,
                           ![p].result = IF ok THEN @ ELSE "err",
                           ![p].cause = IF ok THEN @ ELSE "tmutil"]
    /\ UNCHANGED << file, lock, exists, config, envSteps, sc >>

\* add: the path enters extra_exclusions of the configuration file unless
\* it is there, under the configuration's own guard
AddConfig(p) ==
    /\ st[p].pc = "add_config"
    /\ NoneDone
    /\ \/ /\ st' = [st EXCEPT ![p].pc = "done", ![p].result = "err",
                              ![p].cause = "config"]
          /\ UNCHANGED config
       \/ /\ config_locked(p)
          /\ st' = [st EXCEPT ![p].pc = "add_locked"]
          /\ config' = [config EXCEPT
                          !.extra_exclusions =
                              IF contains(@, st[p].path) THEN @
                              ELSE Append(@, st[p].path)]
    /\ UNCHANGED << file, lock, exists, flagged, envSteps, sc >>

\* add and reset: Registry::locked()? before the registry is written
CommandLocked(p) ==
    /\ st[p].pc \in {"add_locked", "rs_locked"}
    /\ NoneDone
    /\ acquire(p, IF st[p].pc = "add_locked" THEN "add_save" ELSE "rs_save")
          \/ acquire_fails(p)
    /\ UNCHANGED << exists, flagged, config, envSteps, sc >>

\* add: guard.load()?, reg.add, guard.save(&reg)? and the return
AddSave(p) ==
    /\ st[p].pc = "add_save"
    /\ NoneDone
    /\ \/ fail(p, "load") /\ UNCHANGED file
       \/ LET reg == [load(file) EXCEPT !.paths = add(@, st[p].path)]
          IN  \E outcome \in SaveOutcomes :
                /\ file' = save(file, reg, outcome)
                /\ st' = [st EXCEPT
                             ![p].pc = "done", ![p].reg = reg,
                             ![p].loaded = file, ![p].guard = FALSE,
                             ![p].saves = @ + 1,
                             ![p].result = IF outcome = "ok" THEN "ok" ELSE "err",
                             ![p].cause = IF outcome = "ok" THEN "none" ELSE "save"]
    /\ drop(p)
    /\ UNCHANGED << exists, flagged, config, envSteps, sc >>

\* reset: Registry::locked()? for the first guard
ResetStart(p) ==
    /\ Begins(p)
    /\ \/ /\ lock_exclusive(p)
          /\ file' = IF file.kind = "absent" THEN EmptyFile ELSE file
          /\ st' = [st EXCEPT ![p].pc = "rs_read", ![p].guard = TRUE,
                              ![p].acquires = @ + 1, ![p].cmd = "reset"]
       \/ /\ st' = [st EXCEPT ![p].pc = "done", ![p].result = "err",
                              ![p].cause = "lock", ![p].cmd = "reset"]
          /\ UNCHANGED << file, lock >>
    /\ UNCHANGED << exists, flagged, config, envSteps, sc >>

\* a reset that keeps its first guard while it goes on
ResetRead_keeps_guard(p) ==
    /\ st[p].pc = "rs_read"
    /\ NoneDone
    /\ \/ fail(p, "load") /\ drop(p)
       \/ LET paths == load(file).paths
          IN  IF paths = << >>
              THEN /\ st' = [st EXCEPT ![p].pc = "done", ![p].result = "ok",
                                       ![p].guard = FALSE]
                   /\ drop(p)
              ELSE \E confirmed \in BOOLEAN :
                     /\ st' = [st EXCEPT
                                 ![p].pc = IF confirmed THEN "rs_remove" ELSE "done",
                                 ![p].result = IF confirmed THEN @ ELSE "ok",
                                 ![p].listed = paths,
                                 ![p].loaded = file,
                                 ![p].guard = confirmed]
                     /\ IF confirmed THEN UNCHANGED lock ELSE drop(p)
    /\ UNCHANGED << file, exists, flagged, config, envSteps, sc >>

\* reset: guard.load()?, the copy of the list, the drop of the first guard,
\* the return when the list is empty, and the answer to the prompt
ResetRead(p) ==
    /\ st[p].pc = "rs_read"
    /\ NoneDone
    /\ \/ fail(p, "load")
       \/ LET paths == load(file).paths
          IN  IF paths = << >>
              THEN st' = [st EXCEPT ![p].pc = "done", ![p].result = "ok",
                                    ![p].guard = FALSE]
              ELSE \E confirmed \in BOOLEAN :
                     st' = [st EXCEPT
                              ![p].pc = IF confirmed THEN "rs_remove" ELSE "done",
                              ![p].result = IF confirmed THEN @ ELSE "ok",
                              ![p].listed = paths,
                              ![p].loaded = file,
                              ![p].guard = FALSE]
    /\ drop(p)
    /\ UNCHANGED << file, exists, flagged, config, envSteps, sc >>

\* reset: the partition of the list by Path::exists, the batch
\* tmutil::remove_exclusions over the existing paths and, when it fails,
\* tmutil::remove_exclusion for each of them
ResetRemove(p) ==
    /\ st[p].pc = "rs_remove"
    /\ NoneDone
    /\ LET existing == SelectSeq(st[p].listed, LAMBDA x : x \in exists)
       IN  \E ok \in BOOLEAN, refused \in SUBSET SeqToSet(existing) :
             /\ ok => refused = {}
             /\ flagged' = IF ok THEN remove_exclusions(existing, flagged, ok)
                           ELSE flagged \ (SeqToSet(existing) \ refused)
             /\ st' = [st EXCEPT
                          ![p].pc = "rs_config",
                          ![p].onDisk = exists,
                          ![p].batch = IF ok THEN "ok" ELSE "err",
                          ![p].batchArgs = existing,
                          ![p].retried = IF ok THEN << >> ELSE existing,
                          ![p].refused = refused,
                          ![p].failed =
                              SelectSeq(existing, LAMBDA x : x \in refused)]
    /\ UNCHANGED << file, lock, exists, config, envSteps, sc >>

\* reset: extra_exclusions of the configuration file keeps the paths whose
\* removal failed, under the configuration's own guard
ResetConfig(p) ==
    /\ st[p].pc = "rs_config"
    /\ NoneDone
    /\ \/ /\ st' = [st EXCEPT ![p].pc = "done", ![p].result = "err",
                              ![p].cause = "config"]
          /\ UNCHANGED config
       \/ /\ config_locked(p)
          /\ st' = [st EXCEPT ![p].pc = "rs_locked"]
          /\ config' = [config EXCEPT
                          !.extra_exclusions =
                              SelectSeq(@, LAMBDA x : contains(st[p].failed, x))]
    /\ UNCHANGED << file, lock, exists, flagged, envSteps, sc >>

\* a reset that keeps what it loads and writes it back
ResetSave_keeps_loaded(p) ==
    /\ st[p].pc = "rs_save"
    /\ NoneDone
    /\ \/ fail(p, "load") /\ UNCHANGED file
       \/ LET reg == load(file)
          IN  \E outcome \in SaveOutcomes :
                /\ file' = save(file, reg, outcome)
                /\ st' = [st EXCEPT
                             ![p].pc = "done", ![p].reg = reg,
                             ![p].guard = FALSE,
                             ![p].saves = @ + 1,
                             ![p].result = IF outcome = "ok" THEN "ok" ELSE "err",
                             ![p].cause = IF outcome = "ok" THEN "none" ELSE "save"]
    /\ drop(p)
    /\ UNCHANGED << exists, flagged, config, envSteps, sc >>

\* reset: under the second guard guard.load()?, the list becomes the failed
\* paths, saved_bytes is cleared, guard.save(&reg)? and the return
ResetSave(p) ==
    /\ st[p].pc = "rs_save"
    /\ NoneDone
    /\ \/ fail(p, "load") /\ UNCHANGED file
       \/ LET reg == [load(file) EXCEPT !.paths = st[p].failed,
                                        !.saved_bytes = None]
          IN  \E outcome \in SaveOutcomes :
                /\ file' = save(file, reg, outcome)
                /\ st' = [st EXCEPT
                             ![p].pc = "done", ![p].reg = reg,
                             ![p].guard = FALSE,
                             ![p].saves = @ + 1,
                             ![p].result = IF outcome = "ok" THEN "ok" ELSE "err",
                             ![p].cause = IF outcome = "ok" THEN "none" ELSE "save"]
    /\ drop(p)
    /\ UNCHANGED << exists, flagged, config, envSteps, sc >>

CmdNext ==
    \/ LockNext
    \/ \E x \in Paths : Vanish(x)
    \/ \E x \in Paths : Appear(x)
    \/ \E x \in Paths : Drift(x)
    \/ \E p \in Procs, path \in Paths \cup {RegularFile} : AddStart(p, path)
    \/ \E p \in Procs : AddConfig(p)
    \/ \E p \in Procs : CommandLocked(p)
    \/ \E p \in Procs : AddSave(p)
    \/ \E p \in Procs : ResetStart(p)
    \/ \E p \in Procs : ResetRead(p)
    \/ \E p \in Procs : ResetRemove(p)
    \/ \E p \in Procs : ResetConfig(p)
    \/ \E p \in Procs : ResetSave(p)

\* Concurrent run, add, remove and reset commands on a fresh installation,
\* with the environment changing under them
CmdSpec == Init /\ [][CmdNext]_vars

\* The installation that `veiled add` of ManualPath leaves on a fresh system
Installed ==
    /\ file = JsonFile([DefaultRegistry EXCEPT !.paths = << ManualPath >>])
    /\ lock = NoProc
    /\ exists = Paths \ {Min(Paths)}
    /\ flagged = {ManualPath}
    /\ config \in { [auto_update |-> a, extra_exclusions |-> << ManualPath >>] :
                      a \in BOOLEAN }
    /\ envSteps = 0
    /\ st = [p \in Procs |-> IdleProc]
    /\ sc = IdleScan

\* Concurrent commands on that installation
InstalledSpec == Installed /\ [][CmdNext]_vars

\* ------------------------------------------------------------------------
\* commands/list.rs, commands/status.rs and commands/start.rs
\* ------------------------------------------------------------------------
\* a command that reads the registry begins; status asks the daemon first
\* and start installs it, and either may return there
ReadStart(p, cmd) ==
    /\ Begins(p)
    /\ \/ st' = [st EXCEPT ![p].pc = "rd_locked", ![p].cmd = cmd]
       \/ /\ cmd # "list"
          /\ \E result \in IF cmd = "start" THEN {"ok", "err"} ELSE {"err"} :
                st' = [st EXCEPT ![p].pc = "done", ![p].cmd = cmd,
                                 ![p].result = result,
                                 ![p].cause = IF result = "err" THEN "daemon" ELSE @]
    /\ UNCHANGED << file, lock, exists, flagged, config, envSteps, sc >>

\* list, status, start: Registry::locked()?
ReadLocked(p) ==
    /\ st[p].pc = "rd_locked"
    /\ NoneDone
    /\ acquire(p, "rd_load") \/ acquire_fails(p)
    /\ UNCHANGED << exists, flagged, config, envSteps, sc >>

\* list, status, start: guard.load()? and what follows it.  list prints and
\* returns; status --refresh stores the sizes and saves; start drops the
\* guard and, when the registry is empty, goes on as run::execute, whose
\* first step reads the configuration
ReadLoad(p) ==
    /\ st[p].pc = "rd_load"
    /\ NoneDone
    /\ \/ fail(p, "load") /\ UNCHANGED file
       \/ /\ st[p].cmd = "list" \/ load(file).paths = << >>
          /\ st[p].cmd # "start" \/ load(file).paths # << >>
          /\ st' = [st EXCEPT ![p].pc = "done", ![p].result = "ok",
                              ![p].guard = FALSE, ![p].loaded = file]
          /\ UNCHANGED file
       \/ /\ st[p].cmd = "status" /\ load(file).paths # << >>
          /\ \/ /\ st' = [st EXCEPT ![p].pc = "done", ![p].result = "ok",
                                    ![p].guard = FALSE, ![p].loaded = file]
                /\ UNCHANGED file
             \/ \E outcome \in SaveOutcomes :
                   LET reg == [load(file) EXCEPT
                                 !.saved_bytes =
                                     Some(calculate_total_size(load(file).paths, exists))]
                   IN  /\ file' = save(file, reg, outcome)
                       /\ st' = [st EXCEPT
                                   ![p].pc = "done", ![p].reg = reg,
                                   ![p].guard = FALSE, ![p].loaded = file,
                                   ![p].saves = @ + 1,
                                   ![p].result = IF outcome = "ok" THEN "ok" ELSE "err",
                                   ![p].cause = IF outcome = "ok" THEN "none" ELSE "save"]
       \/ /\ st[p].cmd = "start" /\ load(file).paths = << >>
          /\ \/ st' = [st EXCEPT ![p].pc = "done", ![p].result = "err",
                                 ![p].cause = "config", ![p].guard = FALSE]
             \/ st' = [st EXCEPT ![p].cfg = config, ![p].guard = FALSE,
                                 ![p].loaded = file,
                                 ![p].pc = IF config.auto_update THEN "auto_update"
                                           ELSE "locked"]
          /\ UNCHANGED file
    /\ drop(p)
    /\ UNCHANGED << exists, flagged, config, envSteps, sc >>

\* the steps of one process, whatever its command
Command(p) ==
    \/ Proc(p)
    \/ \E path \in Paths \cup {RegularFile} : AddStart(p, path)
    \/ AddConfig(p)
    \/ CommandLocked(p)
    \/ AddSave(p)
    \/ ResetStart(p)
    \/ ResetRead(p)
    \/ ResetRemove(p)
    \/ ResetConfig(p)
    \/ ResetSave(p)
    \/ \E cmd \in {"list", "status", "start"} : ReadStart(p, cmd)
    \/ ReadLocked(p)
    \/ ReadLoad(p)

\* a step of the process that is not the error return of a lock call
Advance(p) == Command(p) /\ st'[p].cause \notin {"lock", "config"}

GuardNext ==
    \/ CmdNext
    \/ \E p \in Procs, cmd \in {"list", "status", "start"} : ReadStart(p, cmd)
    \/ \E p \in Procs : ReadLocked(p)
    \/ \E p \in Procs : ReadLoad(p)

\* Concurrent run, add, remove, reset, list, status and start commands on an
\* installation that registers a path: a process that can go on without a
\* lock call failing eventually does
GuardSpec ==
    Installed /\ [][GuardNext]_vars /\ \A p \in Procs : WF_vars(Advance(p))

\* ------------------------------------------------------------------------
\* scanner.rs: traverse and collect_paths, step by step
\* ------------------------------------------------------------------------
\* a type test of a directory entry that follows symbolic links
entry_is_dir_following(tree, dir, name) == is_dir(tree, Append(dir, name))

\* the entries that pass `!ft.is_dir() || ft.is_symlink()`
entry_is_dir(tree, dir, name) ==
    file_type(tree, dir, name) = "dir" /\ file_type(tree, dir, name) # "symlink"

\* traverse: the loop over the entries of one directory
RECURSIVE visit(_, _, _, _, _)
visit(tree, dir, names, stack, results) ==
    IF names = << >> THEN [stack |-> stack, results |-> results]
    ELSE LET path == Append(dir, Head(names))
         IN  IF ~entry_is_dir(tree, dir, Head(names))
             THEN visit(tree, dir, Tail(names), stack, results)
             ELSE IF is_builtin(file_name(path))
             THEN visit(tree, dir, Tail(names), stack, Append(results, path))
             ELSE visit(tree, dir, Tail(names), Append(stack, path), results)

\* traverse: one turn of `while let Some(dir) = stack.pop()`; read_dir can
\* fail, and lists the entries in one order or another
Pop ==
    /\ sc.pc = "walk" /\ sc.stack # << >>
    /\ LET dir == Last(sc.stack)
           rest == Front(sc.stack)
       IN  IF ~is_dir(sc.tree, dir)
           THEN sc' = [sc EXCEPT !.stack = rest]
           ELSE IF dir \in SeqToSet(sc.cfg.ignore_paths)
           THEN sc' = [sc EXCEPT !.stack = rest]
           ELSE IF is_dir(sc.tree, Append(dir, ".git"))
           THEN sc' = [sc EXCEPT !.stack = rest,
                                 !.git_repos = Append(@, dir)]
           ELSE \/ sc' = [sc EXCEPT !.stack = rest]
                \/ \E names \in Listings(read_dir(sc.tree, dir)) :
                     LET r == visit(sc.tree, dir, names, rest, sc.results)
                     IN  sc' = [sc EXCEPT
                                  !.stack = r.stack,
                                  !.results = r.results,
                                  !.read = @ \cup {dir},
                                  !.pushed = @ \cup
                                      { r.stack[i] :
                                          i \in Len(rest) + 1 .. Len(r.stack) }]
    /\ UNCHANGED << file, lock, exists, flagged, config, envSteps, st >>

\* traverse: the discovered repository roots are cut into chunks
Chunk ==
    /\ sc.pc = "walk" /\ sc.stack = << >>
    /\ LET cs == chunks(sc.git_repos, chunk_size(Len(sc.git_repos)))
       IN  sc' = [sc EXCEPT !.pc = IF cs = << >> THEN "join" ELSE "spawn",
                            !.chunks = cs, !.walked = sc.results]
    /\ UNCHANGED << file, lock, exists, flagged, config, envSteps, st >>

\* traverse: thread::spawn for the next chunk
Spawn ==
    /\ sc.pc = "spawn"
    /\ LET i == Len(sc.handles) + 1
       IN  sc' = [sc EXCEPT !.handles = Append(@, [chunk |-> sc.chunks[i],
                                                   state |-> "running",
                                                   paths |-> << >>]),
                            !.pc = IF i = Len(sc.chunks) THEN "join" ELSE "spawn"]
    /\ UNCHANGED << file, lock, exists, flagged, config, envSteps, st >>

\* what one worker collects: the sub-scan of each repository of its chunk,
\* the paths of one repository in any order
RECURSIVE worker(_, _, _)
worker(tree, git, chunk) ==
    IF chunk = << >> THEN { << >> }
    ELSE { first \o others :
             first \in Orders(scan_git_repo(Head(chunk),
                                            git[Resolve(tree, Head(chunk))])),
             others \in worker(tree, git, Tail(chunk)) }

\* a worker thread runs to its end, or panics
Work(i) ==
    /\ i \in 1 .. Len(sc.handles)
    /\ sc.handles[i].state = "running"
    /\ \/ sc' = [sc EXCEPT !.handles[i].state = "panicked"]
       \/ \E paths \in worker(sc.tree, sc.git, sc.handles[i].chunk) :
            sc' = [sc EXCEPT !.handles[i].state = "finished",
                             !.handles[i].paths = paths]
    /\ UNCHANGED << file, lock, exists, flagged, config, envSteps, st >>

\* a join loop that gives up at the first worker that panicked
Join_aborts ==
    /\ sc.pc = "join" /\ sc.joined < Len(sc.handles)
    /\ LET h == sc.handles[sc.joined + 1]
       IN  /\ h.state # "running"
           /\ sc' = [sc EXCEPT !.joined = IF h.state = "finished" THEN @ + 1
                                          ELSE Len(sc.handles),
                               !.results = IF h.state = "finished"
                                           THEN @ \o h.paths ELSE @]
    /\ UNCHANGED << file, lock, exists, flagged, config, envSteps, st >>

\* traverse: handle.join() of the next handle, which waits for its thread
Join ==
    /\ sc.pc = "join" /\ sc.joined < Len(sc.handles)
    /\ LET h == sc.handles[sc.joined + 1]
       IN  /\ h.state # "running"
           /\ sc' = [sc EXCEPT !.joined = @ + 1,
                               !.results = IF h.state = "finished"
                                           THEN @ \o h.paths ELSE @]
    /\ UNCHANGED << file, lock, exists, flagged, config, envSteps, st >>

\* traverse returns its results
TraverseReturn ==
    /\ sc.pc = "join" /\ sc.joined = Len(sc.handles)
    /\ sc' = [sc EXCEPT !.pc = "collect", !.found = sc.results]
    /\ UNCHANGED << file, lock, exists, flagged, config, envSteps, st >>

\* a collect_paths that returns the paths as it gathered them
CollectPaths_unsorted ==
    /\ sc.pc = "collect"
    /\ sc' = [sc EXCEPT
                !.pc = "returned",
                !.candidates =
                    sc.found \o SelectSeq(sc.cfg.extra_exclusions,
                                          LAMBDA e : is_dir(sc.tree, e))]
    /\ UNCHANGED << file, lock, exists, flagged, config, envSteps, st >>

\* collect_paths: the set of the traversal results and of the extra paths
\* that are directories, sorted; scan returns it as it is
CollectPaths ==
    /\ sc.pc = "collect"
    /\ LET paths == SeqToSet(sc.found)
                      \cup { e \in SeqToSet(sc.cfg.extra_exclusions) :
                               is_dir(sc.tree, e) }
       IN  sc' = [sc EXCEPT !.pc = "returned", !.candidates = sort(paths)]
    /\ UNCHANGED << file, lock, exists, flagged, config, envSteps, st >>

\* scan_git_repo on its own: the git command ends in one of three ways
GitQuery ==
    /\ sc.pc = "query"
    /\ \E outcome \in { SpawnError, NonZeroExit(sc.listing), Listed(sc.listing) } :
         sc' = [sc EXCEPT !.pc = "parse", !.outcome = outcome]
    /\ UNCHANGED << file, lock, exists, flagged, config, envSteps, st >>

\* scan_git_repo on its own: the early returns and parse_git_ignored, whose
\* set is handed back as a Vec in any order
ParseOutput ==
    /\ sc.pc = "parse"
    /\ \E dirs \in Orders(scan_git_repo(sc.repo, sc.outcome)) :
         sc' = [sc EXCEPT !.pc = "parsed", !.dirs = dirs]
    /\ UNCHANGED << file, lock, exists, flagged, config, envSteps, st >>

\* ------------------------------------------------------------------------
\* Specifications of the scanner
\* ------------------------------------------------------------------------
\* no command is running and nothing is installed
Quiet ==
    /\ file = AbsentFile
    /\ lock = NoProc
    /\ exists = {}
    /\ flagged = {}
    /\ config = [auto_update |-> FALSE, extra_exclusions |-> << >>]
    /\ envSteps = 0
    /\ st = [p \in Procs |-> IdleProc]

\* the configurations a scan is started with: one root, overlapping roots in
\* both orders, the same root twice, a root that does not exist, roots that
\* are or go through a symbolic link, a root below what can be a repository
SearchPaths ==
    { << W >>,
      << W, W \o << "target" >> >>,
      << W \o << "target" >>, W >>,
      << W, W >>,
      << Nowhere, W >>,
      << W \o << "link" >> >>,
      << W, W \o << "link" >> >>,
      << W \o << "dist" >>, W \o << "src" >> >>,
      << W, W \o << "src", "dist" >> >> }

IgnorePaths == { << >>, << W \o << "src" >> >>, << W \o << "target" >> >> }

ExtraExclusions ==
    { << >>, << W \o << "target" >>, W \o << "notes" >> >>, << Nowhere >> }

\* the directories that can be repositories, and what git lists in one: the
\* walk does not go below a repository root, so the tree does not hold what
\* the listing names
RepoDirs == { W \o << "src" >>, W \o << "repo" >> }

ScanListing ==
    << [comps |-> << "target", "notes" >>, dir |-> FALSE],
       [comps |-> << "src", "build", "notes" >>, dir |-> FALSE],
       [comps |-> << "notes" >>, dir |-> FALSE] >>

ScanOutcomes ==
    { SpawnError, NonZeroExit(ScanListing), Listed(ScanListing) }

\* the configurations of a scan: each set of search paths with nothing
\* ignored and nothing extra, and overlapping search paths with each choice
\* of ignored and of extra paths
Configs ==
    { [search_paths |-> roots, ignore_paths |-> << >>,
       extra_exclusions |-> << >>] : roots \in SearchPaths }
      \cup { [search_paths |-> << W, W \o << "target" >> >>,
              ignore_paths |-> ignore, extra_exclusions |-> extra] :
                ignore \in IgnorePaths, extra \in ExtraExclusions }

\* scan is called: traverse starts with the search paths on its stack
ScanStart(cfgs, outcomes) ==
    /\ Quiet
    /\ \E tree \in Trees, cfg \in cfgs, git \in [RepoDirs -> outcomes] :
         /\ \A r \in RepoDirs :
                Append(r, ".git") \notin tree => git[r] = SpawnError
         /\ sc = [IdleScan EXCEPT
                    !.pc = "walk", !.tree = tree, !.git = git,
                    !.cfg = cfg, !.stack = cfg.search_paths]

ScanInit == ScanStart(Configs, ScanOutcomes)

ScanNext ==
    \/ Pop
    \/ Chunk
    \/ Spawn
    \/ \E i \in 1 .. Len(sc.handles) : Work(i)
    \/ Join
    \/ TraverseReturn
    \/ CollectPaths

\* One call of scan over any of the trees and configurations
ScanSpec == ScanInit /\ [][ScanNext]_vars

\* the search paths that do not exist, or are or go through a symbolic link
LinkConfigs ==
    { cfg \in Configs :
        cfg.search_paths \in { << Nowhere, W >>, << W \o << "link" >> >>,
                               << W, W \o << "link" >> >>,
                               << W \o << "dist" >>, W \o << "src" >> >> } }

\* One call of scan over any of the trees, on a machine without git, with
\* search paths that do not exist or lead through links; the loop and the
\* threads it started keep running
LinkSpec ==
    ScanStart(LinkConfigs, { SpawnError }) /\ [][ScanNext]_vars
        /\ WF_vars(ScanNext)

\* the numbers of repository roots a walk can have found
RepoCounts == { 0, 1, 2, 8, 9, 17 }

Repo(i) == W \o << "r" \o ToString(i) >>

\* traverse after its walk found n repository roots, the last of which may
\* be the first one found again (from a second search path), and the git
\* command of the first of which does not start
PoolInit ==
    /\ Quiet
    /\ \E n \in RepoCounts, again \in BOOLEAN :
         sc = [IdleScan EXCEPT
                 !.pc = "walk",
                 !.git = [r \in { Repo(i) : i \in 1 .. n } |->
                            IF r = Repo(1) THEN SpawnError
                            ELSE Listed(<< ScanListing[1] >>)],
                 !.git_repos = [i \in 1 .. n |->
                                  Repo(IF again /\ i = n THEN 1 ELSE i)]]

PoolNext ==
    \/ Chunk
    \/ Spawn
    \/ \E i \in 1 .. Len(sc.handles) : Work(i)
    \/ Join
    \/ TraverseReturn

PoolSpec == PoolInit /\ [][PoolNext]_vars

\* what a repository ignores: files, directories (each holding a file
\* `notes`) and embedded repositories, at paths of up to MaxComponents names,
\* the first of which may start with a blank
MaxComponents == 2

MaxEntries == 2

ParseNames == { "src", "target", " target" }

RelPaths ==
    { path \in UNION { [1 .. k -> ParseNames] : k \in 1 .. MaxComponents } :
        \A i \in 2 .. Len(path) : path[i] = trim_start(path[i]) }

Items == [comps : RelPaths, kind : { "file", "dir", "embedded" }]

\* the entry git prints for an ignored item: the path of a file, the path of
\* each file of a directory, an embedded repository with a trailing separator
Entry(item) ==
    IF item.kind = "dir"
    THEN [comps |-> Append(item.comps, "notes"), dir |-> FALSE]
    ELSE [comps |-> item.comps, dir |-> item.kind = "embedded"]

\* no path twice, and nothing below a file
Consistent(items) ==
    \A i, j \in 1 .. Len(items) :
        i # j =>
            /\ items[i].comps # items[j].comps
            /\ items[i].kind = "file" =>
                   ~IsPrefix(items[i].comps, items[j].comps)

\* scan_git_repo is called on a repository that ignores up to MaxEntries
\* items
ParseInit ==
    /\ Quiet
    /\ \E k \in 0 .. MaxEntries :
         \E items \in [1 .. k -> Items] :
            /\ Consistent(items)
            /\ sc = [IdleScan EXCEPT
                       !.pc = "query", !.repo = W \o << "repo" >>,
                       !.ignored = items,
                       !.listing = [i \in 1 .. k |-> Entry(items[i])]]

ParseNext == GitQuery \/ ParseOutput

ParseSpec == ParseInit /\ [][ParseNext]_vars

\* ------------------------------------------------------------------------
\* Specification of the pure functions: Registry::add, Registry::remove and
\* is_builtin called on their own
\* ------------------------------------------------------------------------
\* the calls made on one registry
MaxCalls == 2

\* the path lists of the registries the calls are made on: any list,
\* repetitions included, as a registry file can hold any list
PathLists == UNION { [1 .. k -> Paths] : k \in 0 .. NumPaths + 1 }

\* the names is_builtin is asked about: the names of the set, the empty
\* name, names that differ from one of the set in case only, names that
\* contain one of the set or are contained in one, and other names
Probes ==
    BUILTIN_DIRS \cup
        { "", "Node_Modules", "TARGET", "pods", ".Venv",
          "targets", "target.d", " target", "node_modules2", "mytmp",
          "targ", "node", "buil", "cache", "idea",
          "src", "README.md" }

\* A call is made on a registry built in memory, any list of paths without
\* a file, or on a registry with any optional field while the file is absent,
\* empty or unparsable or holds a registry, a longer one included.
UnitInit ==
    /\ lock = NoProc
    /\ lock = NoProc
    /\ exists = {}
    /\ flagged = {}
    /\ config = [auto_update |-> FALSE, extra_exclusions |-> << >>]
    /\ envSteps = 0
    /\ sc = IdleScan
    /\ \E reg \in { [DefaultRegistry EXCEPT !.paths = paths] : paths \in PathLists }
                   \cup { [r EXCEPT !.saved_bytes = sb] :
                             r \in Registries, sb \in {None, Some(1)} } :
         /\ st = [p \in Procs |->
                    IF p \in Solo
                      THEN [IdleProc EXCEPT !.pc = "unit", !.reg = reg]
                      ELSE IdleProc]
         /\ \/ file = AbsentFile
            \/ /\ \E r \in Registries : reg.paths = r.paths
               /\ file \in {EmptyFile, MalformedFile}
                           \cup { JsonFile(r) : r \in Registries }
                           \cup { JsonFile([DefaultRegistry EXCEPT
                                              !.paths = SortSet(Paths),
                                              !.saved_bytes = Some(1),
                                              !.last_update_check = Some(1)]) }

\* one more call is made on the registry
Calling(p) == st[p].pc = "unit" /\ Len(st[p].trace) < MaxCalls

\* Registry::locked_at, guard.save(&reg) and drop(guard)
UnitSave(p) ==
    /\ Calling(p)
    /\ \E outcome \in SaveOutcomes :
         LET opened == IF file.kind = "absent" THEN EmptyFile ELSE file
         IN  /\ file' = save(opened, st[p].reg, outcome)
             /\ st' = [st EXCEPT
                          ![p].trace = Append(@, [op |-> "save", arg |-> st[p].reg,
                                                  before |-> file,
                                                  after |-> file',
                                                  ret |-> outcome])]
    /\ UNCHANGED << lock, exists, flagged, config, envSteps, sc >>

\* Registry::locked_at, guard.load() and drop(guard)
UnitLoad(p) ==
    /\ Calling(p)
    /\ file' = IF file.kind = "absent" THEN EmptyFile ELSE file
    /\ st' = [st EXCEPT
                 ![p].reg = load(file'),
                 ![p].trace = Append(@, [op |-> "load", arg |-> file',
                                         before |-> file, after |-> file',
                                         ret |-> load(file')])]
    /\ UNCHANGED << lock, exists, flagged, config, envSteps, sc >>

UnitAdd(p, path) ==
    /\ Calling(p)
    /\ st' = [st EXCEPT
                 ![p].reg.paths = add(@, path),
                 ![p].trace = Append(@, [op |-> "add", arg |-> path,
                                         before |-> st[p].reg.paths,
                                         after |-> add(st[p].reg.paths, path),
                                         ret |-> FALSE])]
    /\ UNCHANGED << file, lock, exists, flagged, config, envSteps, sc >>

UnitRemove(p, path) ==
    /\ Calling(p)
    /\ LET out == remove(st[p].reg.paths, path)
       IN  st' = [st EXCEPT
                    ![p].reg.paths = out.paths,
                    ![p].trace = Append(@, [op |-> "remove", arg |-> path,
                                            before |-> st[p].reg.paths,
                                            after |-> out.paths,
                                            ret |-> out.removed])]
    /\ UNCHANGED << file, lock, exists, flagged, config, envSteps, sc >>

\* is_builtin is asked about one name
UnitIsBuiltin(p, name) ==
    /\ st[p].pc = "unit" /\ st[p].trace = << >>
    /\ st' = [st EXCEPT
                 ![p].pc = "done",
                 ![p].trace = << [op |-> "is_builtin", arg |-> name,
                                  before |-> st[p].reg.paths,
                                  after |-> st[p].reg.paths,
                                  ret |-> is_builtin(name)] >>]
    /\ UNCHANGED << file, lock, exists, flagged, config, envSteps, sc >>

UnitNext ==
    \E p \in Procs :
        \/ \E path \in Paths : UnitAdd(p, path)
        \/ \E path \in Paths : UnitRemove(p, path)
        \/ \E name \in Probes : UnitIsBuiltin(p, name)
        \/ UnitSave(p)
        \/ UnitLoad(p)

UnitSpec == UnitInit /\ [][UnitNext]_vars

\* ------------------------------------------------------------------------
\* updater.rs
\* ------------------------------------------------------------------------
\* A version is the triple of its numbers, a tag the number of 'v' it starts
\* with and the dot-separated numbers after them; a URL is the sequence of
\* its parts; a digest is kept with its length, its alphabet and its case.

\* semver's precedence of versions without pre-release tags
version_le(a, b) ==
    \/ a[1] < b[1]
    \/ a[1] = b[1] /\ a[2] < b[2]
    \/ a[1] = b[1] /\ a[2] = b[2] /\ a[3] <= b[3]

\* parse_version: strip_prefix('v') takes one 'v' away; Version::parse wants
\* exactly three numbers and nothing before them
parse_version(tag) ==
    LET vs == IF tag.vs > 0 THEN tag.vs - 1 ELSE tag.vs
    IN  IF vs = 0 /\ Len(tag.nums) = 3 THEN Some(tag.nums) ELSE None

\* parse_checksum: the first word of the file, which must be 64 hexadecimal
\* digits, in lower case
parse_checksum(content) ==
    IF content = << >> THEN None
    ELSE IF content[1].len # 64 \/ ~content[1].hex THEN None
    ELSE Some([content[1] EXCEPT !.upper = FALSE])

\* compute_sha256: the digest of the bytes as 64 lower-case digits
compute_sha256(bytes) == [len |-> 64, hex |-> TRUE, upper |-> FALSE, value |-> bytes]

TRUSTED_ORIGINS ==
    { << "https:", "//", "github.com", "/" >>,
      << "https:", "//", "objects.githubusercontent.com", "/" >> }

validate_download_url(url) == \E origin \in TRUSTED_ORIGINS : IsPrefix(origin, url)

\* the steps of download_and_replace that touch the file system, in order
InstallSteps == << "current_exe", "parent", "create", "write", "permissions", "persist" >>

\* the step comes before the one that fails, or nothing fails
Passes(step, failing) ==
    \A i, j \in 1 .. Len(InstallSteps) :
        (InstallSteps[i] = step /\ InstallSteps[j] = failing) => i < j

\* a download_and_replace that installs what it downloaded without comparing
download_and_replace_unverified(binary, binary_url, checksum_url, net, failing) ==
    IF ~Passes("current_exe", failing) \/ ~Passes("parent", failing)
        THEN [ok |-> FALSE, binary |-> binary]
    ELSE IF ~validate_download_url(binary_url) \/ ~validate_download_url(checksum_url)
        THEN [ok |-> FALSE, binary |-> binary]
    ELSE IF net.checksum = None \/ parse_checksum(net.checksum[1]) = None
        THEN [ok |-> FALSE, binary |-> binary]
    ELSE IF net.bytes = None
        THEN [ok |-> FALSE, binary |-> binary]
    ELSE IF ~Passes("persist", failing)
        THEN [ok |-> FALSE, binary |-> binary]
    ELSE [ok |-> TRUE, binary |-> net.bytes[1]]

\* download_and_replace: the binary is the file at current_exe; temp.persist
\* renames the temporary file over it, every earlier return leaves it alone
download_and_replace(binary, binary_url, checksum_url, net, failing) ==
    IF ~Passes("current_exe", failing) \/ ~Passes("parent", failing)
        THEN [ok |-> FALSE, binary |-> binary]
    ELSE IF ~validate_download_url(binary_url) \/ ~validate_download_url(checksum_url)
        THEN [ok |-> FALSE, binary |-> binary]
    ELSE IF net.checksum = None \/ parse_checksum(net.checksum[1]) = None
        THEN [ok |-> FALSE, binary |-> binary]
    ELSE IF net.bytes = None
        THEN [ok |-> FALSE, binary |-> binary]
    ELSE IF compute_sha256(net.bytes[1]) # parse_checksum(net.checksum[1])[1]
        THEN [ok |-> FALSE, binary |-> binary]
    ELSE IF ~Passes("persist", failing)
        THEN [ok |-> FALSE, binary |-> binary]
    ELSE [ok |-> TRUE, binary |-> net.bytes[1]]

\* check: the release is fetched, the versions are compared, the two assets of
\* the platform are looked up and download_and_replace is called
check(binary, current, net, failing) ==
    IF net.release = None THEN [ret |-> "err", binary |-> binary]
    ELSE LET response == net.release[1]
             cur == parse_version(current)
             latest == parse_version(response.tag_name)
         IN  IF cur = None \/ latest = None THEN [ret |-> "err", binary |-> binary]
             ELSE IF version_le(latest[1], cur[1])
                 THEN [ret |-> "current", binary |-> binary]
             ELSE IF response.binary_url = None \/ response.checksum_url = None
                 THEN [ret |-> "err", binary |-> binary]
             ELSE LET r == download_and_replace(binary, response.binary_url[1],
                                                response.checksum_url[1], net, failing)
                  IN  [ret |-> IF r.ok THEN "updated" ELSE "err", binary |-> r.binary]

\* ------------------------------------------------------------------------
\* Specification of the updater: one call of updater::check
\* ------------------------------------------------------------------------
\* the versions a build or a release can carry
Versions == { << 0, 9, 9 >>, << 1, 0, 0 >>, << 1, 0, 1 >>, << 1, 1, 0 >> }

\* CARGO_PKG_VERSION of the running build
Builds == { [vs |-> 0, nums |-> v] : v \in { << 1, 0, 0 >>, << 1, 0, 1 >> } }

\* the tag names of a release
Tags ==
    { [vs |-> n, nums |-> v] : n \in 0 .. 1, v \in Versions }
        \cup { [vs |-> 2, nums |-> << 1, 1, 0 >>], [vs |-> 1, nums |-> << 1, 1 >>] }

\* the download addresses of an asset
Urls ==
    { << "https:", "//", "github.com", "/", "veiled" >>,
      << "https:", "//", "objects.githubusercontent.com", "/", "veiled" >>,
      << "http:", "//", "github.com", "/", "veiled" >>,
      << "https:", "//", "github.com.example.org", "/", "veiled" >> }

\* the contents of a file that can be downloaded as the binary
Payloads == { "release", "other" }

\* the words of a checksum file
Words ==
    { [len |-> 64, hex |-> TRUE, upper |-> u, value |-> v] :
          u \in BOOLEAN, v \in Payloads }
        \cup { [len |-> 63, hex |-> TRUE, upper |-> FALSE, value |-> "release"],
               [len |-> 64, hex |-> FALSE, upper |-> FALSE, value |-> "release"] }

\* the contents of a checksum file: the digest, and the file name after it
ChecksumFiles ==
    { << >> } \cup { << w >> : w \in Words }
        \cup { << w, [len |-> 6, hex |-> FALSE, upper |-> FALSE, value |-> "veiled"] >> :
                  w \in { w \in Words : w.len = 64 /\ w.hex /\ ~w.upper } }

\* what the network answers: the latest release (or an error), the checksum
\* file and the binary
Responses ==
    { [release |-> rel, checksum |-> cs, bytes |-> by] :
        rel \in { None } \cup
                { Some([tag_name |-> t, binary_url |-> bu, checksum_url |-> cu]) :
                     t \in Tags, bu \in { None } \cup { Some(u) : u \in Urls },
                     cu \in { None } \cup { Some(u) : u \in Urls } },
        cs \in { None } \cup { Some(c) : c \in ChecksumFiles },
        by \in { None } \cup { Some(b) : b \in Payloads } }

\* the step of the installation that fails, if any
Failing == SeqToSet(InstallSteps) \cup { "none" }

\* `veiled update` (or the auto_update of a run) calls updater::check once
UpdaterCall(p, current, net, failing) ==
    /\ st[p].pc = "idle"
    /\ LET r == check("installed", current, net, failing)
       IN  st' = [st EXCEPT
                    ![p].pc = "done", ![p].cmd = "update",
                    ![p].result = IF r.ret = "err" THEN "err" ELSE "ok",
                    ![p].checked = TRUE,
                    ![p].trace = << [op |-> "check",
                                     arg |-> [current |-> current, net |-> net,
                                              failing |-> failing],
                                     before |-> "installed", after |-> r.binary,
                                     ret |-> r.ret] >>]
    /\ UNCHANGED << file, lock, exists, flagged, config, envSteps, sc >>

UpdateNext ==
    \E p \in { p \in Solo : st[p].pc = "idle" } :
        \E current \in Builds, net \in Responses, failing \in Failing :
            UpdaterCall(p, current, net, failing)

UpdateSpec == Init /\ [][UpdateNext]_vars

\* ------------------------------------------------------------------------
\* Properties
\* ------------------------------------------------------------------------
Steps == { "prune_stale", "reapply_lost", "scan", "reconcile", "persist" }

FullTrace == << "prune_stale", "reapply_lost", "scan", "reconcile", "persist" >>

Did(p, step) == \E i \in 1 .. Len(st[p].trace) : st[p].trace[i] = step

\* the paths of the registry that is persisted in the file
Persisted == SeqToSet(load(file).paths)

\* the new candidates of the classification step of p, split by the flag
\* state the batch query saw
NewFlagged(p) ==
    { c \in SeqToSet(st[p].candidates) :
        c \notin st[p].wasMember /\ c \in st[p].flagsSeen }

NewUnflagged(p) ==
    { c \in SeqToSet(st[p].candidates) :
        c \notin st[p].wasMember /\ c \notin st[p].flagsSeen }

\* the paths that entered the registry in the classification step of p
Entered(p) == SeqToSet(st[p].reg.paths) \ st[p].wasMember

\* C1: at any moment at most one process holds the registry guard; a process
\* that called acquire while another holds a guard has no guard itself.
C1_OneGuard ==
    \A p, q \in Procs : st[p].guard /\ st[q].guard => p = q

C1_Witness ==
    \E p, q \in Procs :
        /\ p # q
        /\ st[p].guard /\ lock = p
        /\ st[q].pc \in {"auto_update", "locked"}

\* C2: the load, mutation and save of one run are not interleaved with the
\* load or save of another: while a run is between its load and its save the
\* file is what it loaded and nobody else holds the guard, and a save changes
\* the persisted path set by exactly the run's own prunes and additions.
C2_NoInterleaving ==
    [][\A p \in Procs :
         /\ st[p].pc \in Steps =>
               /\ file = st[p].loaded
               /\ st[p].guard
               /\ \A q \in Procs : q # p => ~st[q].guard /\ st[q].pc \notin Steps
         /\ (st[p].pc = "persist" /\ st'[p].saves = st[p].saves + 1
                                  /\ st'[p].result = "ok") =>
               SeqToSet(load(file').paths)
                 = (Persisted \ st[p].pruned) \cup Entered(p)]_vars

C2_Witness ==
    \E p, q \in Procs :
        /\ p # q
        /\ st[q].pc = "exited" /\ st[q].saves = 1 /\ st[q].result = "ok"
        /\ st[p].pc = "done" /\ st[p].saves = 1 /\ st[p].result = "ok"
        /\ load(st[p].loaded).paths # << >>
        /\ st[p].pruned \cup Entered(p) # {}
        /\ Persisted # SeqToSet(load(st[p].loaded).paths)

\* C3: if the batch flag-setting call of the classification step fails, none
\* of the unflagged new candidates is registered; a path enters the registry
\* in that step only if the query saw it flagged or it was part of a batch
\* call that succeeded.
C3_FailClosed ==
    \A p \in Procs : Did(p, "reconcile") =>
        /\ st[p].setFailed => NewUnflagged(p) \cap SeqToSet(st[p].reg.paths) = {}
        /\ st[p].setFailed => NewUnflagged(p) \cap SeqToSet(st[p].added) = {}
        /\ \A x \in Entered(p) :
              \/ x \in st[p].flagsSeen
              \/ /\ st[p].setCalled /\ ~st[p].setFailed
                 /\ x \in SeqToSet(st[p].to_exclude)

C3_Witness ==
    \E p \in Procs :
        /\ st[p].pc = "done" /\ st[p].result = "ok"
        /\ st[p].setFailed
        /\ Cardinality(NewUnflagged(p)) >= 2

\* C4: new candidates the query saw flagged are registered, and reported as
\* added, whether or not the batch call for the others succeeds; the batch
\* flag-setting call is never given a flagged candidate and is not made at
\* all when every new candidate is flagged.
C4_AlreadyFlagged ==
    \A p \in Procs : Did(p, "reconcile") =>
        /\ NewFlagged(p) \subseteq SeqToSet(st[p].reg.paths)
        /\ NewFlagged(p) \subseteq SeqToSet(st[p].added)
        /\ NewFlagged(p) # {} => st[p].queried
        /\ st[p].setCalled => SeqToSet(st[p].to_exclude) = NewUnflagged(p)
        /\ NewUnflagged(p) = {} => ~st[p].setCalled

C4_Witness ==
    \E p \in Procs :
        /\ st[p].pc = "done" /\ st[p].result = "ok"
        /\ Cardinality(NewFlagged(p)) >= 2
        /\ NewUnflagged(p) = {}
        /\ ~st[p].setCalled /\ st[p].queried
        /\ Len(st[p].added) >= 2

\* C5: the reapplication step hands exactly the registered paths the query
\* reports unflagged to one batch flag-setting call, and every such path is
\* still registered afterwards, in memory and in the file the run persists,
\* whether the batch call succeeds or fails.
C5_Reapply ==
    \A p \in Procs : Did(p, "reapply_lost") =>
        /\ SeqToSet(st[p].lost) = st[p].unflagged
        /\ NoDup(st[p].lost)
        /\ st[p].lostCalled <=> st[p].unflagged # {}
        /\ st[p].unflagged \subseteq SeqToSet(st[p].reg.paths)
        /\ (st[p].pc = "done" /\ st[p].result = "ok") =>
               st[p].unflagged \subseteq Persisted

C5_Witness ==
    \E p \in Procs :
        /\ st[p].pc = "done" /\ st[p].result = "ok" /\ st[p].saves = 1
        /\ st[p].lostCalled /\ st[p].lostFailed
        /\ st[p].unflagged # {}
        /\ SeqToSet(st[p].reg.paths) \ st[p].unflagged # {}

\* C6, as stated: after a run (that returned success) the persisted registry
\* holds no path that was missing from disk when the pruning step looked, and
\* every registered path that was on disk is kept; one registered missing
\* path and no candidates leave the empty registry.
C6_NoPrunedPathPersisted ==
    \A p \in Procs : (st[p].pc = "done" /\ st[p].result = "ok") =>
        /\ Persisted \cap st[p].pruned = {}
        /\ st[p].kept \subseteq Persisted
        /\ (Len(load(st[p].loaded).paths) = 1 /\ st[p].kept = {}
              /\ st[p].candidates = << >>) => load(file).paths = << >>

\* C6, amended: after a run that returned success the persisted registry
\* holds a path that was missing from disk when the pruning step looked only
\* if the directory was re-created and the classification step of the same
\* run added it again; every registered path that was on disk is kept, the
\* registry holds nothing but kept paths and candidates, and one registered
\* missing path with no candidates leaves the empty registry.
C6_PrunedUnlessRefound ==
    \A p \in Procs : (st[p].pc = "done" /\ st[p].result = "ok") =>
        /\ Persisted \cap st[p].pruned
              \subseteq Entered(p) \cap SeqToSet(st[p].candidates)
        /\ st[p].kept \subseteq Persisted
        /\ Persisted \subseteq st[p].kept \cup SeqToSet(st[p].candidates)
        /\ (Len(load(st[p].loaded).paths) = 1 /\ st[p].kept = {}
              /\ st[p].candidates = << >>) => load(file).paths = << >>

C6_Witness ==
    \E p \in Procs :
        /\ st[p].pc = "done" /\ st[p].result = "ok"
        /\ Len(load(st[p].loaded).paths) = 1
        /\ Cardinality(st[p].pruned) = 1
        /\ st[p].candidates = << >>
        /\ file.kind = "json" /\ load(file).paths = << >>

\* C7: the steps of a run happen in the order pruning, reapplication,
\* discovery, classification, persistence, and no path is both pruned and
\* handed to the reapplication batch call in the same run.
C7_Order ==
    \A p \in Procs :
        /\ IsPrefix(st[p].trace, FullTrace)
        /\ st[p].pruned \cap SeqToSet(st[p].lost) = {}

C7_Witness ==
    \E p \in Procs :
        /\ st[p].pc = "done" /\ st[p].trace = FullTrace
        /\ st[p].pruned # {}
        /\ st[p].lostCalled

\* C8: the reconciliation steps write the registry file exactly once if a
\* path was pruned, the reapplication batch succeeded for at least one path,
\* or a candidate was added; otherwise they do not write it and its contents
\* stay as loaded.
C8_SaveOnce ==
    \A p \in Procs :
        /\ st[p].pc \in Steps => st[p].saves = 0 /\ file = st[p].loaded
        /\ (st[p].pc = "done" /\ Did(p, "persist")) =>
              LET changed == \/ st[p].pruned # {}
                             \/ st[p].lostCalled /\ ~st[p].lostFailed
                             \/ Entered(p) # {}
              IN  /\ st[p].saves = IF changed THEN 1 ELSE 0
                  /\ ~changed => file = st[p].loaded

C8_Witness ==
    \E p \in Procs :
        /\ st[p].pc = "done" /\ st[p].result = "ok"
        /\ st[p].saves = 1
        /\ st[p].pruned = {} /\ Entered(p) = {}
        /\ st[p].lostCalled /\ ~st[p].lostFailed

\* C9, as stated: one call of run acquires the registry guard exactly once,
\* for every configuration.
C9_AcquiresOnce ==
    \A p \in Procs :
        (st[p].pc = "done" /\ st[p].result = "ok") => st[p].acquires = 1

\* C9, amended: a successful call acquires the guard once when the background
\* update check is disabled and twice when it is enabled; the first guard is
\* released in auto_update and all reconciliation steps run under the last.
C9_AcquiresPerConfig ==
    \A p \in Procs :
        /\ (st[p].pc = "done" /\ st[p].result = "ok") =>
              st[p].acquires = IF st[p].cfg.auto_update THEN 2 ELSE 1
        /\ st[p].pc \in Steps =>
              st[p].acquires = IF st[p].cfg.auto_update THEN 2 ELSE 1
        /\ st[p].pc \in {"au_check", "locked"} => ~st[p].guard

C9_Witness ==
    \E p \in Procs :
        /\ st[p].pc = "done" /\ st[p].result = "ok"
        /\ st[p].cfg.auto_update
        /\ st[p].acquires = 2

\* C10: a failure of the batch flag-setting call, in reapplication or in
\* classification, never aborts the run: the run goes through all later
\* steps to the persist decision, and an error it returns can only come from
\* the save of the registry.
C10_AdapterFailureNotFatal ==
    \A p \in Procs :
        (st[p].pc = "done" /\ (st[p].lostFailed \/ st[p].setFailed)) =>
            /\ st[p].trace = FullTrace
            /\ st[p].result = "ok" \/ st[p].cause = "save"
            /\ st[p].saves = 0 => st[p].result = "ok"

C10_Witness ==
    \E p \in Procs :
        /\ st[p].pc = "done" /\ st[p].result = "ok"
        /\ st[p].lostFailed /\ st[p].setFailed
        /\ st[p].trace = FullTrace

\* C11: a run returns an error only if the configuration could not be loaded
\* or the registry file could not be opened or locked; a failure to load or
\* to save the registry under the lock does not make the run fail.
C11_OnlyLockOrConfigFatal ==
    \A p \in Procs :
        (st[p].pc = "done" /\ st[p].result = "err") =>
            st[p].cause \in {"config", "lock"}

\* the positions at which a command calls Registry::locked
AcquirePcs == {"auto_update", "locked", "rm_locked"}

C13_AtMostEightWorkers == Len(sc.handles) <= POOL

\* what the handles that were joined so far add to the results
RECURSIVE Joined(_)
Joined(handles) ==
    IF handles = << >> THEN << >>
    ELSE (IF Head(handles).state = "finished" THEN Head(handles).paths
          ELSE << >>) \o Joined(Tail(handles))

\* C14: the chunks cut the discovered roots into consecutive non-empty runs,
\* so that every root is in exactly one chunk as often as it was discovered;
\* every worker sub-scans its own chunk; traverse returns only after every
\* worker has been joined, and returns the results of its walk followed by
\* those of every worker that finished, a worker that panicked adding nothing.
C14_WorkersJoined ==
    /\ sc.pc \in {"spawn", "join", "collect"} =>
          /\ concat(sc.chunks) = sc.git_repos
          /\ \A i \in 1 .. Len(sc.chunks) : sc.chunks[i] # << >>
          /\ Len(sc.handles) <= Len(sc.chunks)
          /\ \A i \in 1 .. Len(sc.handles) :
                /\ sc.handles[i].chunk = sc.chunks[i]
                /\ sc.handles[i].state = "finished" =>
                      sc.handles[i].paths
                          \in worker(sc.tree, sc.git, sc.chunks[i])
    /\ sc.pc = "collect" =>
          /\ Len(sc.handles) = Len(sc.chunks)
          /\ sc.joined = Len(sc.handles)
          /\ \A i \in 1 .. Len(sc.handles) : sc.handles[i].state # "running"
          /\ sc.found = sc.walked \o Joined(sc.handles)

C14_Witness ==
    /\ sc.pc = "collect"
    /\ \E i, j \in 1 .. Len(sc.handles) :
          /\ i < j
          /\ sc.handles[i].state = "panicked"
          /\ sc.handles[j].state = "finished"
          /\ Len(sc.handles[j].chunk) = 2
          /\ sc.handles[j].paths # << >>
    /\ sc.found # << >>
    /\ \E i, j \in 1 .. Len(sc.git_repos) :
          i # j /\ sc.git_repos[i] = sc.git_repos[j]

\* path `a` lies strictly below path `b`
Below(a, b) == IsPrefix(b, a) /\ a # b

\* what the git command answered for a discovered repository root
Answer(repo) == sc.git[Resolve(sc.tree, repo)]

\* C15: a repository whose git command did not start or exited non-zero
\* adds no candidate, whatever the command printed: every path a worker
\* returns lies below a repository of its chunk whose command succeeded; and
\* the scan still returns the results of its walk and of the workers that
\* finished.
C15_FailedQueryContributesNothing ==
    sc.pc \in {"collect", "returned"} =>
        /\ \A i \in 1 .. Len(sc.handles) :
              \A k \in 1 .. Len(sc.handles[i].paths) :
                  \E j \in 1 .. Len(sc.handles[i].chunk) :
                      /\ Answer(sc.handles[i].chunk[j]).kind = "ok"
                      /\ Below(sc.handles[i].paths[k], sc.handles[i].chunk[j])
        /\ \A i \in 1 .. Len(sc.handles) :
              sc.handles[i].state = "finished" =>
                  SeqToSet(sc.handles[i].paths) \subseteq SeqToSet(sc.found)
        /\ SeqToSet(sc.walked) \subseteq SeqToSet(sc.found)
        /\ sc.pc = "returned" => SeqToSet(sc.found) \subseteq SeqToSet(sc.candidates)

C15_Witness ==
    /\ sc.pc = "returned"
    /\ \E i, j \in 1 .. Len(sc.git_repos) :
          /\ Answer(sc.git_repos[i]).kind = "nonzero"
          /\ Answer(sc.git_repos[i]).stdout # << >>
          /\ Answer(sc.git_repos[j]).kind = "ok"
          /\ \E k \in 1 .. Len(sc.candidates) :
                Below(sc.candidates[k], sc.git_repos[j])
    /\ sc.walked # << >>

\* the directories the walk reported so far
WalkResults == SeqToSet(IF sc.pc = "walk" THEN sc.results ELSE sc.walked)

\* the tree holds no repository
Plain == \A d \in sc.tree : file_name(d) # ".git"

\* C16: a directory the walk reported for its name is never pushed on the
\* stack and never read, nothing below it is read, pushed or reported, and
\* no candidate returned for a tree without repositories lies strictly
\* below another one.
C16_NothingBelowArtifact ==
    /\ \A p \in sc.pushed : ~is_builtin(file_name(p))
    /\ \A r \in WalkResults :
          /\ r \notin sc.read
          /\ \A x \in sc.read \cup sc.pushed \cup WalkResults : ~Below(x, r)
    /\ (sc.pc = "returned" /\ Plain) =>
          \A i, j \in 1 .. Len(sc.candidates) :
              ~Below(sc.candidates[i], sc.candidates[j])

\* the entry at this path is a symbolic link
IsLink(path) == file_type(sc.tree, Front(path), Last(path)) = "symlink"

\* C17: the walk never pushes and never reports a child that is a symbolic
\* link, so it reads below a link only where a search path leads it; a
\* search path that does not exist is not read and nothing is pushed or
\* reported below it; and every scan returns, whatever links the tree holds.
C17_SymlinksSkipped ==
    /\ [](/\ \A p \in sc.pushed \cup WalkResults : ~IsLink(p)
          /\ \A d \in sc.read :
                \E i \in 1 .. Len(sc.cfg.search_paths) :
                    /\ IsPrefix(sc.cfg.search_paths[i], d)
                    /\ \A k \in Len(sc.cfg.search_paths[i]) + 1 .. Len(d) :
                          ~IsLink(SubSeq(d, 1, k))
          /\ \A x \in sc.read \cup sc.pushed \cup WalkResults
                        \cup SeqToSet(sc.candidates) :
                ~IsPrefix(Nowhere, x))
    /\ <>(sc.pc = "returned")

C17_Witness ==
    /\ sc.pc = "returned"
    /\ sc.cfg.search_paths = << Nowhere, W >>
    /\ W \in sc.read
    /\ W \o << "target" >> \in sc.tree
    /\ W \o << "target" >> \in SeqToSet(sc.candidates)
    /\ IsLink(W \o << "link" >>) /\ IsLink(W \o << "dist" >>)

\* C18: the list scan returns is strictly increasing, so sorted and without
\* a duplicate, and holds exactly the results of the traversal and the extra
\* paths that are directories, also when search paths overlap or an extra
\* path is one the traversal found.
C18_SortedUnion ==
    sc.pc = "returned" =>
        /\ \A i \in 1 .. Len(sc.candidates) - 1 :
              path_lt(sc.candidates[i], sc.candidates[i + 1])
        /\ SeqToSet(sc.candidates)
              = SeqToSet(sc.found)
                  \cup { e \in SeqToSet(sc.cfg.extra_exclusions) :
                           is_dir(sc.tree, e) }

C18_Witness ==
    /\ sc.pc = "returned"
    /\ sc.cfg.search_paths = << W, W \o << "target" >> >>
    /\ \E i \in 1 .. Len(sc.cfg.extra_exclusions) :
          sc.cfg.extra_exclusions[i] \in SeqToSet(sc.found)
    /\ \E i \in 1 .. Len(sc.cfg.extra_exclusions) :
          ~is_dir(sc.tree, sc.cfg.extra_exclusions[i])
    /\ Len(sc.candidates) >= 3
    /\ \E i \in 1 .. Len(sc.found) - 1 : path_lt(sc.found[i + 1], sc.found[i])

\* the path of the ignored item k of the repository
ItemPath(k) == sc.repo \o sc.ignored[k].comps

\* C19: the sub-scan returns a path at most once, only paths below the
\* repository root, and never the path of an ignored file.
C19_OnlyDirectories ==
    sc.pc = "parsed" =>
        /\ \A i, j \in 1 .. Len(sc.dirs) : i # j => sc.dirs[i] # sc.dirs[j]
        /\ \A i \in 1 .. Len(sc.dirs) : Below(sc.dirs[i], sc.repo)
        /\ \A k \in 1 .. Len(sc.ignored) :
              sc.ignored[k].kind = "file" =>
                  ItemPath(k) \notin SeqToSet(sc.dirs)

\* the ignored items that are directories
IgnoredDirs ==
    { k \in 1 .. Len(sc.ignored) : sc.ignored[k].kind \in {"dir", "embedded"} }

Trimmed(comps) == << trim_start(Head(comps)) >> \o Tail(comps)

FirstArtifactPrefixes(entries) ==
    UNION { { sc.repo \o SubSeq(entries[k], 1, n) :
                n \in { n \in 1 .. Len(entries[k]) :
                          /\ entries[k][n] \in BUILTIN_DIRS
                          /\ \A m \in 1 .. n - 1 :
                                entries[k][m] \notin BUILTIN_DIRS } } :
            k \in 1 .. Len(entries) }

\* C21 as stated: the sub-scan of a listing returns exactly the paths made
\* of the repository root and, for each entry with an artifact name on its
\* path, the names of the entry up to the first artifact name.
C21_ExactlyFirstArtifactPrefixes ==
    (sc.pc = "parsed" /\ sc.outcome.kind = "ok") =>
        SeqToSet(sc.dirs)
            = FirstArtifactPrefixes([k \in 1 .. Len(sc.listing) |->
                                        sc.listing[k].comps])

\* C21: the sub-scan of a listing returns exactly the paths made of the
\* repository root and, for each entry that has an artifact name on its path
\* once the white space around the entry is removed, the names of that
\* trimmed entry up to the first artifact name; an entry without an artifact
\* name adds nothing, an entry adds at most one path, and no path is
\* returned twice.
C21_ExactlyTrimmedPrefixes ==
    (sc.pc = "parsed" /\ sc.outcome.kind = "ok") =>
        /\ SeqToSet(sc.dirs)
              = FirstArtifactPrefixes([k \in 1 .. Len(sc.listing) |->
                                          Trimmed(sc.listing[k].comps)])
        /\ NoDup(sc.dirs)
        /\ Len(sc.dirs) <= Len(sc.listing)

C21_Witness ==
    /\ sc.pc = "parsed" /\ sc.outcome.kind = "ok"
    /\ Len(sc.listing) = 2
    /\ sc.listing[1].comps = << "target", "target" >>
    /\ sc.listing[2].comps = << " target", "notes" >>
    /\ sc.dirs = << sc.repo \o << "target" >> >>

\* the directory holds a version-control marker
IsRepo(dir) == is_dir(sc.tree, Append(dir, ".git"))

\* C22: the walk never reads a directory that holds a version-control marker
\* and never pushes or reports a child of one, and nothing the walk reports
\* lies below such a directory: candidates below it come from its sub-scan.
C22_RepositoriesNotWalked ==
    /\ \A d \in sc.read : ~IsRepo(d)
    /\ \A x \in sc.pushed \cup WalkResults : ~IsRepo(Front(x))
    /\ \A x \in WalkResults :
          \A n \in 1 .. Len(x) - 1 : ~IsRepo(SubSeq(x, 1, n))

\* C23: nothing the traversal returns is, or lies below, a directory listed
\* in ignore_paths.
C23_NothingUnderIgnored ==
    sc.pc \in {"collect", "returned"} =>
        \A k \in 1 .. Len(sc.found), i \in 1 .. Len(sc.cfg.ignore_paths) :
            ~IsPrefix(sc.cfg.ignore_paths[i], sc.found[k])

\* the calls of one operation made so far
Calls(op) ==
    UNION { { st[p].trace[k] : k \in { k \in 1 .. Len(st[p].trace) :
                                          st[p].trace[k].op = op } } :
            p \in { p \in Procs : st[p].pc \in {"unit", "done"} /\ p \in Solo } }

\* C24: is_builtin answers true exactly for the names of BUILTIN_DIRS: not for
\* the empty name, a name that differs from one of the set in case only, or a
\* name that contains or is contained in one of the set.
C24_ExactNameOnly ==
    \A call \in Calls("is_builtin") :
        /\ call.ret = (call.arg \in BUILTIN_DIRS)
        /\ call.arg \in { "", "Node_Modules", "TARGET", "pods", ".Venv",
                          "targets", "target.d", " target", "node_modules2",
                          "mytmp", "targ", "node", "buil", "cache", "idea" }
              => call.ret = FALSE

C24_Witness ==
    \E call \in Calls("is_builtin") : call.arg = "TARGET" /\ call.ret = FALSE

\* C25: add on a list that holds the path changes nothing, otherwise it
\* appends the path at the end; a second add of the same path leaves the
\* list the first one left.
C25_AddIdempotent ==
    /\ \A call \in Calls("add") :
          call.after = IF call.arg \in SeqToSet(call.before)
                         THEN call.before
                         ELSE call.before \o << call.arg >>
    /\ \A p \in Procs : \A k \in 1 .. Len(st[p].trace) - 1 :
          LET first == st[p].trace[k]
              second == st[p].trace[k + 1]
          IN  (first.op = "add" /\ second.op = "add" /\ first.arg = second.arg)
                  => second.after = first.after

C25_Witness ==
    \E p \in Procs :
        /\ Len(st[p].trace) = 2
        /\ st[p].trace[1].op = "add" /\ st[p].trace[2].op = "add"
        /\ st[p].trace[1].arg = st[p].trace[2].arg
        /\ st[p].trace[1].arg \notin SeqToSet(st[p].trace[1].before)
        /\ st[p].trace[1].before # << >>
        /\ st[p].reg.paths = st[p].trace[1].before \o << st[p].trace[1].arg >>

\* the positions of a list that hold another path than the given one
Kept(paths, path) == { i \in 1 .. Len(paths) : paths[i] # path }

\* C27: remove returns true exactly when the path was in the list; afterwards
\* the list does not hold the path and holds the other paths in the order
\* they had; when the path was not in the list the list is unchanged.
C27_RemoveReportsPresence ==
    \A call \in Calls("remove") :
        /\ call.ret = (call.arg \in SeqToSet(call.before))
        /\ call.arg \notin SeqToSet(call.after)
        /\ Len(call.after) = Cardinality(Kept(call.before, call.arg))
        /\ \A i \in Kept(call.before, call.arg) :
              call.after[Cardinality({ j \in Kept(call.before, call.arg) :
                                         j <= i })] = call.before[i]
        /\ call.arg \notin SeqToSet(call.before) => call.after = call.before

C27_Witness ==
    \E call \in Calls("remove") :
        /\ call.ret = TRUE
        /\ Len(call.before) = 3 /\ Len(call.after) = 2
        /\ call.after = << call.before[1], call.before[3] >>

\* C28: a load that follows a successful save returns the registry that was
\* saved, with its paths, its byte total and its timestamp, whatever the file
\* held before the save.
C28_SaveThenLoad ==
    \A p \in Procs : \A k \in 1 .. Len(st[p].trace) - 1 :
        LET saved == st[p].trace[k]
            loaded == st[p].trace[k + 1]
        IN  (saved.op = "save" /\ saved.ret = "ok" /\ loaded.op = "load")
                => /\ loaded.ret.paths = saved.arg.paths
                   /\ loaded.ret.saved_bytes = saved.arg.saved_bytes
                   /\ loaded.ret.last_update_check = saved.arg.last_update_check

C28_Witness ==
    \E p \in Procs :
        /\ Len(st[p].trace) = 2
        /\ st[p].trace[1].op = "save" /\ st[p].trace[1].ret = "ok"
        /\ st[p].trace[2].op = "load"
        /\ st[p].trace[1].before.kind = "json"
        /\ Size(st[p].trace[1].before) > Size(st[p].trace[1].after)
        /\ st[p].trace[1].arg.saved_bytes # None
        /\ st[p].trace[1].arg.last_update_check = None
        /\ st[p].reg = st[p].trace[1].arg

\* C29: a load of an absent, empty or unparsable file returns the default
\* registry, and a load of a registry without an optional field returns the
\* paths of the file and no value for that field.
C29_LoadFallsBack ==
    \A call \in Calls("load") :
        /\ call.before.kind \in {"absent", "empty", "malformed"}
              => call.ret = [paths |-> << >>, saved_bytes |-> None,
                             last_update_check |-> None]
        /\ call.before.kind = "json"
              => /\ call.ret.paths = call.before.json["paths"]
                 /\ "saved_bytes" \notin DOMAIN call.before.json
                       => call.ret.saved_bytes = None
                 /\ "last_update_check" \notin DOMAIN call.before.json
                       => call.ret.last_update_check = None

C29_Witness ==
    \E p \in Procs :
        /\ Len(st[p].trace) = 1
        /\ st[p].trace[1].op = "load"
        /\ st[p].trace[1].before.kind = "json"
        /\ DOMAIN st[p].trace[1].before.json = {"paths"}
        /\ st[p].trace[1].before.json["paths"] # << >>
        /\ st[p].reg.paths = st[p].trace[1].before.json["paths"]
        /\ st[p].reg.saved_bytes = None

\* C26: no path is twice in a list of the registry, in the memory of a
\* command or in the file, whatever run, add, remove and reset commands ran
\* since the installation.
C26_NoPathTwice ==
    /\ NoDup(load(file).paths)
    /\ \A p \in Procs : NoDup(st[p].reg.paths)

C26_Witness ==
    \E p \in Procs :
        /\ st[p].pc = "done" /\ st[p].cmd = "add" /\ st[p].result = "ok"
        /\ contains(load(st[p].loaded).paths, st[p].path)
        /\ Len(load(file).paths) = NumPaths

\* C30: a confirmed reset passes the registered paths that exist on disk,
\* and no other, to the batch removal; when the batch fails it retries each
\* of them on its own, and when it succeeds none; the reset that returns
\* without error leaves in the file exactly the paths whose own removal
\* failed, in their order, and no byte total.
C30_ResetKeepsFailed ==
    \A p \in Procs :
        (st[p].cmd = "reset" /\ st[p].batch # "none") =>
            LET existing == SelectSeq(st[p].listed, LAMBDA x : x \in st[p].onDisk)
            IN  /\ st[p].batchArgs = existing
                /\ st[p].retried = IF st[p].batch = "err" THEN existing ELSE << >>
                /\ st[p].batch = "ok" => st[p].failed = << >>
                /\ st[p].failed =
                       SelectSeq(st[p].listed, LAMBDA x : x \in st[p].refused)
                /\ st[p].refused \subseteq SeqToSet(st[p].retried)
                /\ (st[p].pc = "done" /\ st[p].result = "ok")
                       => /\ load(file).paths = st[p].failed
                          /\ load(file).saved_bytes = None

C30_Witness ==
    \E p \in Procs :
        /\ st[p].cmd = "reset" /\ st[p].pc = "done" /\ st[p].result = "ok"
        /\ st[p].batch = "err"
        /\ Len(st[p].listed) = 2 /\ Len(st[p].retried) = 2
        /\ Cardinality(st[p].refused) = 1
        /\ load(st[p].loaded).saved_bytes # None
        /\ Len(load(file).paths) = 1

\* the command a process is running takes a step
Steps_of(p, cmd) == st'[p] # st[p] /\ st'[p].cmd = cmd /\ st'[p].pc # "exited"

\* C31: an add of a path that is not on disk, or is a regular file there,
\* returns an error on its first step and changes no flag, nor the
\* configuration, nor the registry file, which it does not even open.
C31_AddBadPathChangesNothing ==
    [][\A p \in Procs :
         (Steps_of(p, "add") /\ st[p].pc = "idle" /\ st'[p].path \notin exists)
             => /\ st'[p].pc = "done" /\ st'[p].result = "err"
                /\ st'[p].cause \in {"path", "not_dir"}
                /\ st'[p].acquires = 0 /\ st'[p].saves = 0
                /\ flagged' = flagged /\ config' = config /\ file' = file]_vars

C31_Witness ==
    \E p \in Procs :
        /\ st[p].cmd = "add" /\ st[p].pc = "done" /\ st[p].cause = "not_dir"
        /\ st[p].path = RegularFile
        /\ load(file).paths # << >>

\* C32: a remove of a path that the registry does not hold returns the error
\* "not managed by veiled" and has not saved: the registry file holds what it
\* held, a missing file being created empty when the guard is acquired.
C32_NotManagedNoSave ==
    [][\A p \in Procs :
         Steps_of(p, "remove") =>
             /\ st[p].pc # "rm_save" => load(file') = load(file) /\ st'[p].saves = 0
             /\ st[p].pc \notin {"rm_save", "rm_locked"} => file' = file
             /\ (st[p].pc = "rm_load" /\ ~contains(load(file).paths, st[p].path))
                   => /\ st'[p].pc = "done" /\ st'[p].result = "err"
                      /\ st'[p].cause \in {"not_managed", "load"}
             /\ st'[p].cause = "not_managed"
                   => ~contains(load(file).paths, st[p].path)]_vars

C32_Witness ==
    \E p \in Procs :
        /\ st[p].cmd = "remove" /\ st[p].pc = "done"
        /\ st[p].cause = "not_managed" /\ st[p].saves = 0
        /\ load(file).paths # << >>

\* C37: a remove that fails because the registry does not hold the path, and
\* beside which nothing else ran, leaves the flags, the extra exclusions of
\* the configuration and the registry as they were before the command, which
\* is as the fresh installation has them: no flag, ManualPath as the one
\* extra exclusion, and no registry file.
C37_FailedRemoveHasNoEffect ==
    \A p \in Procs :
        (/\ st[p].cmd = "remove" /\ st[p].pc = "done"
         /\ st[p].cause = "not_managed"
         /\ envSteps = 0
         /\ \A q \in Procs \ {p} : st[q].pc = "idle")
            => /\ flagged = {}
               /\ config.extra_exclusions = << ManualPath >>
               /\ load(file) = load(AbsentFile)

\* C33: the classification step of a run queries and flags only candidates
\* that the registry did not hold, and every path it reports as added was
\* not in the registry before the step and is in it afterwards.
C33_OnlyNewCandidates ==
    \A p \in Procs :
        Did(p, "reconcile") =>
            /\ SeqToSet(st[p].new_candidates)
                  = SeqToSet(st[p].candidates) \ st[p].wasMember
            /\ SeqToSet(st[p].already) \cup SeqToSet(st[p].to_exclude)
                  \subseteq SeqToSet(st[p].new_candidates)
            /\ SeqToSet(st[p].added) \cap st[p].wasMember = {}
            /\ SeqToSet(st[p].added) \subseteq SeqToSet(st[p].reg.paths)
            /\ NoDup(st[p].added)

C33_Witness ==
    \E p \in Procs :
        /\ Did(p, "reconcile")
        /\ SeqToSet(st[p].candidates) \cap st[p].wasMember # {}
        /\ st[p].setCalled /\ ~st[p].setFailed
        /\ st[p].added # << >>
        /\ Len(st[p].new_candidates) < Len(st[p].candidates)

\* An installation as a run with auto_update as configured leaves it when
\* nothing fails: the registered paths exist and are flagged, the registry
\* holds every scan candidate, and the update check has a timestamp.
Settled(f, flags, cfg) ==
    /\ SeqToSet(load(f).paths) \subseteq exists \cap flags
    /\ SeqToSet(scan(cfg, exists)) \subseteq SeqToSet(load(f).paths)
    /\ cfg.auto_update => load(f).last_update_check # None

\* a run has returned without error, no adapter call of it failed and
\* nothing but the run changed the directories and the flags
QuietRun(p) ==
    /\ st[p].cmd = "run" /\ st[p].pc = "done" /\ st[p].result = "ok"
    /\ Did(p, "persist")
    /\ ~st[p].lostFailed /\ ~st[p].setFailed
    /\ envSteps = 0 /\ \A q \in Procs \ {p} : st[q].pc = "idle"

\* C34 as stated: after such a run the installation is settled, and such a
\* run on a settled installation prunes, reapplies and adds nothing and
\* leaves the registry file as it was.
C34_SecondRunWritesNothing ==
    \A p \in Procs :
        QuietRun(p) =>
            /\ Settled(file, flagged, st[p].cfg)
            /\ Settled(st[p].before.file, st[p].before.flagged, st[p].cfg)
                  => /\ st[p].stale_count = 0 /\ st[p].re_applied = 0
                     /\ st[p].added = << >>
                     /\ load(file) = load(st[p].before.file)

\* C34: after such a run the installation is settled, and such a run on a
\* settled installation prunes, reapplies and adds nothing and does not save
\* in its reconciliation; the registry file changes only when the update
\* check was due, and then only in its timestamp.
C34_SecondRunReconcilesNothing ==
    \A p \in Procs :
        QuietRun(p) =>
            /\ Settled(file, flagged, st[p].cfg)
            /\ Settled(st[p].before.file, st[p].before.flagged, st[p].cfg)
                  => /\ st[p].stale_count = 0 /\ st[p].re_applied = 0
                     /\ st[p].added = << >>
                     /\ st[p].saves = 0
                     /\ flagged = st[p].before.flagged
                     /\ load(file).paths = load(st[p].before.file).paths
                     /\ load(file).saved_bytes = load(st[p].before.file).saved_bytes
                     /\ ~st[p].checked => load(file) = load(st[p].before.file)

C34_Witness ==
    \E p \in Procs :
        /\ QuietRun(p)
        /\ Settled(st[p].before.file, st[p].before.flagged, st[p].cfg)
        /\ st[p].cfg.auto_update /\ ~st[p].checked
        /\ Len(load(file).paths) = NumPaths
        /\ load(file).saved_bytes # None

\* C38: an add whose add_exclusion call fails returns the error at once and
\* leaves the configuration and the registry file alone; every step of an add
\* that changes the extra exclusions or the registered paths is taken after
\* its add_exclusion call succeeded, and it registers the path of that call.
C38_AddRegistersAfterFlag ==
    [][\A p \in Procs :
          Steps_of(p, "add") =>
             /\ (st[p].pc = "idle" /\ st'[p].setFailed)
                   => /\ st'[p].pc = "done" /\ st'[p].result = "err"
                      /\ st'[p].cause = "tmutil"
                      /\ config' = config /\ file' = file /\ lock' = lock
             /\ (config' # config \/ load(file').paths # load(file).paths)
                   => /\ st[p].setCalled /\ ~st[p].setFailed
                      /\ SeqToSet(config'.extra_exclusions)
                            \subseteq SeqToSet(config.extra_exclusions) \cup {st[p].path}
                      /\ SeqToSet(load(file').paths)
                            \subseteq SeqToSet(load(file).paths) \cup {st[p].path}]_vars

C38_Witness ==
    \E p \in Procs :
        /\ st[p].cmd = "add" /\ st[p].pc = "done" /\ st[p].result = "err"
        /\ st[p].cause = "tmutil" /\ st[p].setCalled /\ st[p].setFailed
        /\ st[p].path \in exists \ flagged
        /\ load(file).paths = << ManualPath >>
        /\ config.extra_exclusions = << ManualPath >>
        /\ st[p].path # ManualPath

\* C39: auto_update, holding the registry guard, skips the update check and
\* leaves the registry file alone when the stored timestamp is not in the
\* future and less than 86400 seconds old; otherwise it saves the registry
\* with the timestamp set to the clock reading and nothing else changed, and
\* has released the guard when the update check runs; the check runs only
\* after that save, and the save of the reconciliation keeps the timestamp.
C39_UpdateCheckRateLimited ==
    [][\A p \in Procs :
          LET last == load(file).last_update_check
              t == st[p].now
              recent == last # None /\ ~(last[1] > t) /\ t - last[1] < 86400
          IN  /\ (st[p].pc = "au_test" /\ st'[p].pc # "au_test")
                    => /\ lock = p /\ st[p].guard
                       /\ recent => /\ file' = file
                                    /\ st'[p].pc = "locked" /\ ~st'[p].checked
                       /\ ~recent => /\ st'[p].pc \in {"au_check", "done"}
                                     /\ st'[p].pc = "au_check"
                                           => load(file') = [load(file) EXCEPT
                                                  !.last_update_check = Some(t)]
                                     /\ st'[p].pc = "done" => st'[p].cause = "save"
                       /\ lock' # p /\ ~st'[p].guard
              /\ (st'[p].checked /\ ~st[p].checked)
                    => /\ st[p].pc = "au_check"
                       /\ lock # p /\ ~st[p].guard
                       /\ last # None
              /\ (st[p].pc = "persist" /\ st'[p].pc = "done" /\ st'[p].result = "ok")
                    => load(file').last_update_check = last]_vars

\* a run whose update check was due because the stored timestamp lay in the
\* future, and whose reconciliation saved the registry afterwards
C39_Witness ==
    \E p \in Procs :
        /\ st[p].cmd = "run" /\ st[p].pc = "done" /\ st[p].result = "ok"
        /\ st[p].checked /\ st[p].saves = 1
        /\ load(st[p].before.file).last_update_check = Some(UPDATE_COOLDOWN_SECS + 1)
        /\ load(file).last_update_check = Some(UPDATE_COOLDOWN_SECS)
        /\ load(file).paths # load(st[p].before.file).paths

\* the latest release is strictly newer than the running build
StrictlyNewer(tag, current) ==
    /\ parse_version(tag) # None /\ parse_version(current) # None
    /\ LET a == parse_version(tag)[1]
           b == parse_version(current)[1]
       IN  \E i \in 1 .. 3 : a[i] > b[i] /\ \A j \in 1 .. i - 1 : a[j] = b[j]

\* the word is the digest of the bytes, in either case of the digits
DigestOf(word, bytes) == word.len = 64 /\ word.hex /\ word.value = bytes

\* C40: a call of updater::check changes the installed binary only when the
\* release is strictly newer than the build, both download URLs begin with a
\* trusted origin and the downloaded bytes have the digest of the checksum
\* file, and then the binary is those bytes; a call that returns an error or
\* finds nothing newer leaves the binary as it was.
C40_ReplacesOnlyVerified ==
    \A c \in Calls("check") :
        LET net == c.arg.net
        IN  /\ c.after # c.before
                => /\ net.release # None
                   /\ StrictlyNewer(net.release[1].tag_name, c.arg.current)
                   /\ net.release[1].binary_url # None
                   /\ net.release[1].checksum_url # None
                   /\ \A url \in { net.release[1].binary_url[1],
                                   net.release[1].checksum_url[1] } :
                         \E origin \in TRUSTED_ORIGINS :
                            SubSeq(url, 1, Len(origin)) = origin
                   /\ net.bytes # None /\ net.checksum # None
                   /\ net.checksum[1] # << >>
                   /\ DigestOf(net.checksum[1][1], net.bytes[1])
                   /\ c.after = net.bytes[1]
                   /\ c.ret = "updated"
            /\ c.ret # "updated" => c.after = c.before

\* an update installed from the second trusted origin, with a checksum file
\* that spells the digest in upper case and names the file after it
C40_Witness ==
    \E c \in Calls("check") :
        /\ c.ret = "updated" /\ c.after = "release" /\ c.before = "installed"
        /\ c.arg.net.release[1].tag_name = [vs |-> 1, nums |-> << 1, 1, 0 >>]
        /\ c.arg.current = [vs |-> 0, nums |-> << 1, 0, 1 >>]
        /\ c.arg.net.release[1].binary_url[1][3] = "objects.githubusercontent.com"
        /\ c.arg.net.checksum[1][1].upper

\* C35: the save of a confirmed reset takes out of the registry only paths
\* that the reset had read and did not fail to unflag; a path that another
\* command registered after the reset read the registry is still registered
\* after the save.
C35_ResetKeepsLaterPaths ==
    [][\A p \in Procs :
          (Steps_of(p, "reset") /\ st[p].pc = "rs_save" /\ st'[p].result = "ok")
             => LET was == SeqToSet(load(file).paths)
                    is == SeqToSet(load(file').paths)
                IN  /\ was \ is \subseteq SeqToSet(st[p].listed) \ SeqToSet(st[p].failed)
                    /\ was \ SeqToSet(st[p].listed) \subseteq is]_vars

\* the positions at which a command waits for the registry guard, and for
\* the guard of the configuration file
RegistryWaits == {"auto_update", "locked", "rm_locked", "add_locked", "rs_locked", "rd_locked"}

ConfigWaits == {"add_config", "rm_config", "rs_config"}

====
